---- MODULE Spec2Model ----
(***************************************************************************)
(* A model of the lotion front end: the event-stream client                *)
(* (frontend/src/lib/agentos.ts, sendMessageToAgentOS) and the stage-gated *)
(* Home page that drives it (the page with viability, visuals and spec      *)
(* stages).                                                                *)
(*                                                                         *)
(* Text is a sequence of atoms.  An atom is a one-character string ("A",   *)
(* " ", "\n") or an indivisible lexeme of the wire format ("event:",       *)
(* "data:", an event kind, a JSON document).  A JSON document on the wire  *)
(* is one atom whose parsed value is given by JsonValue; every other       *)
(* sequence of atoms fails to parse.  Chunk boundaries fall between atoms. *)
(***************************************************************************)
EXTENDS Integers, Sequences, FiniteSets, TLC

\* ------------------------------------------------------------------------
\* Bounds of the model
\* ------------------------------------------------------------------------
MaxLen == 4
MaxEvents == 2
MaxMixed == 1
MaxFrameLen == 4
MaxNodes == 2

\* ------------------------------------------------------------------------
\* JavaScript strings and values
\* ------------------------------------------------------------------------
NL == "\n"
SP == " "

IsSpace(c) == c \in {SP, NL, "\t"}

Min(S) == CHOOSE m \in S : \A n \in S : m <= n
Max(S) == CHOOSE m \in S : \A n \in S : n <= m

\* String.prototype.trim
Trim(s) ==
  LET keep == {i \in 1..Len(s) : ~IsSpace(s[i])}
  IN IF keep = {} THEN <<>> ELSE SubSeq(s, Min(keep), Max(keep))

\* String.prototype.indexOf, 1-based; 0 stands for JavaScript's -1
IndexOf(s, pat) ==
  LET hits == {i \in 1..(Len(s) - Len(pat) + 1) : SubSeq(s, i, i + Len(pat) - 1) = pat}
  IN IF hits = {} THEN 0 ELSE Min(hits)

\* String.prototype.split on a one-atom separator
RECURSIVE Split(_, _)
Split(s, sep) ==
  LET i == IndexOf(s, <<sep>>)
  IN IF i = 0 THEN <<s>>
     ELSE <<SubSeq(s, 1, i - 1)>> \o Split(SubSeq(s, i + 1, Len(s)), sep)

\* Array.prototype.join
RECURSIVE Join(_, _)
Join(parts, sep) ==
  IF parts = <<>> THEN <<>>
  ELSE IF Len(parts) = 1 THEN parts[1]
  ELSE parts[1] \o sep \o Join(Tail(parts), sep)

\* Array.prototype.map(f).filter(Boolean) for arrays of strings
NonEmpty(parts) == SelectSeq(parts, LAMBDA p : p # <<>>)

StartsWith(s, pat) == Len(s) >= Len(pat) /\ SubSeq(s, 1, Len(pat)) = pat

\* Call by value: v is evaluated once and Op is applied to its value
Bind(v, Op(_)) == CHOOSE r \in {Op(x) : x \in {v}} : TRUE

\* JavaScript values: undefined, null, string, number, array, object
JUndef == [t |-> "undefined"]
JNull == [t |-> "null"]
JStr(s) == [t |-> "str", s |-> s]
JNum(n) == [t |-> "num", n |-> n]
JArr(items) == [t |-> "arr", items |-> items]
JObj(f) == [t |-> "obj", f |-> f]

\* typeof v === "string"
IsString(v) == v.t = "str"
\* v && typeof v === "object"
IsObjectLike(v) == v.t \in {"obj", "arr"}
\* "k" in v, v a parsed JSON value
HasField(v, k) == v.t = "obj" /\ k \in DOMAIN v.f
\* v.k (undefined when absent)
Field(v, k) == IF HasField(v, k) THEN v.f[k] ELSE JUndef
\* Boolean(v)
Truthy(v) ==
  CASE v.t = "str" -> v.s # <<>>
    [] v.t = "num" -> v.n # 0
    [] v.t \in {"arr", "obj"} -> TRUE
    [] OTHER -> FALSE

\* ------------------------------------------------------------------------
\* Characters
\* ------------------------------------------------------------------------
Uppers == <<"A","B","C","D","E","F","G","H","I","J","K","L","M",
            "N","O","P","Q","R","S","T","U","V","W","X","Y","Z">>
Lowers == <<"a","b","c","d","e","f","g","h","i","j","k","l","m",
            "n","o","p","q","r","s","t","u","v","w","x","y","z">>
Digits == {"0","1","2","3","4","5","6","7","8","9"}
UpperSet == {Uppers[i] : i \in 1..Len(Uppers)}
LowerSet == {Lowers[i] : i \in 1..Len(Lowers)}

\* Lexemes of coordinator chatter that occur in member text, with their
\* lower-case forms
LowerOfLexeme(a) ==
  CASE a = "Calling" -> "calling"
    [] a = "Coordinator" -> "coordinator"
    [] a = "CoordinatorPM" -> "coordinatorpm"
    [] a = "System:" -> "system:"
    [] OTHER -> a

\* toLowerCase of one atom
LowerAtom(a) ==
  IF a \in UpperSet
  THEN Lowers[CHOOSE i \in 1..Len(Uppers) : Uppers[i] = a]
  ELSE LowerOfLexeme(a)

\* String.prototype.toLowerCase
ToLowerCase(s) == [i \in 1..Len(s) |-> LowerAtom(s[i])]

\* Atoms that begin or end with a word character (\w), for \b in the regexes
WordLexemes == {"calling", "Calling", "coordinator", "Coordinator",
                "coordinatorpm", "CoordinatorPM", "delegate_task_to_member"}
EndsInWordChar(a) == a \in UpperSet \cup LowerSet \cup Digits \cup {"_"} \cup WordLexemes
BeginsWithWordChar(a) ==
  EndsInWordChar(a) \/ a \in {"call f(", "system:", "System:"}

\* ------------------------------------------------------------------------
\* agentos.ts: constants
\* ------------------------------------------------------------------------
RESEARCH_AGENT_ID == <<"r","e","s","e","a","r","c","h","a","g","e","n","t">>
VISUAL_AGENT_ID == <<"v","i","s","u","a","l","a","g","e","n","t">>
PRODUCT_AGENT_ID == <<"p","r","o","d","u","c","t","a","g","e","n","t">>

\* ------------------------------------------------------------------------
\* JSON documents that occur on the wire (each is one atom of the stream)
\* ------------------------------------------------------------------------
ResearchName == <<"R","e","s","e","a","r","c","h","-","A","g","e","n","t">>
VisualName == <<"V","i","s","u","a","l"," ","A","g","e","n","t">>

MemberR == JObj([member_id |-> JStr(ResearchName), content |-> JStr(<<"R">>)])
MemberV == JObj([name |-> JStr(VisualName), response |-> JStr(<<"V">>)])

JsonDocs == {"null", "{content:A}", "{content:B}", "{content:blank}", "{content:{text:B}}",
             "{content:chatter}", "{members:[R]}", "{members:[V]}",
             "{content:B,members:[R]}", "{session_id:s1,run_id:r1}",
             "{session_id:s2,content:A}", "{session_id:s2,run_id:r2}",
             "{session_id:,run_id:}", "{members:[{members:[R]}]}"}

JsonValue(doc) ==
  CASE doc = "null" -> JNull
    [] doc = "{content:A}" -> JObj([content |-> JStr(<<"A">>)])
    [] doc = "{content:B}" -> JObj([content |-> JStr(<<"B">>)])
    [] doc = "{content:blank}" -> JObj([content |-> JStr(<<SP>>)])
    [] doc = "{content:{text:B}}" -> JObj([content |-> JObj([text |-> JStr(<<"B">>)])])
    [] doc = "{content:chatter}" ->
         JObj([content |-> JStr(<<"Calling", SP, "A", NL, SP, "C", NL, "call f(">>)])
    [] doc = "{members:[R]}" -> JObj([member_responses |-> JArr(<<MemberR>>)])
    [] doc = "{members:[V]}" -> JObj([member_responses |-> JArr(<<MemberV>>)])
    [] doc = "{content:B,members:[R]}" ->
         JObj([content |-> JStr(<<"B">>), member_responses |-> JArr(<<MemberR>>)])
    [] doc = "{session_id:s1,run_id:r1}" ->
         JObj([session_id |-> JStr(<<"s1">>), run_id |-> JStr(<<"r1">>)])
    [] doc = "{session_id:s2,content:A}" ->
         JObj([session_id |-> JStr(<<"s2">>), content |-> JStr(<<"A">>)])
    [] doc = "{session_id:s2,run_id:r2}" ->
         JObj([session_id |-> JStr(<<"s2">>), run_id |-> JStr(<<"r2">>)])
    [] doc = "{members:[{members:[R]}]}" ->
         JObj([member_responses |->
                 JArr(<<JObj([member_id |-> JStr(VisualName), content |-> JStr(<<>>),
                              member_responses |-> JArr(<<MemberR>>)])>>)])
    [] doc = "{session_id:,run_id:}" ->
         JObj([session_id |-> JStr(<<>>), run_id |-> JStr(<<>>)])

\* JSON.parse: surrounding white space is allowed; anything but one document throws
JsonParse(s) ==
  LET t == Trim(s)
  IN IF Len(t) = 1 /\ t[1] \in JsonDocs
     THEN [ok |-> TRUE, value |-> JsonValue(t[1])]
     ELSE [ok |-> FALSE, value |-> JUndef]

\* ------------------------------------------------------------------------
\* agentos.ts: parseSSEEvent
\* ------------------------------------------------------------------------
EventPrefix == <<"event:">>
DataPrefix == <<"data:">>

NoEvent == [isEvent |-> FALSE, type |-> <<>>, data |-> JNull]

\* A variant that keeps the first "event:" line instead of the last
parseSSEEventFirstKind(rawEvent) ==
  IF Trim(rawEvent) = <<>> THEN NoEvent
  ELSE
    LET lines == Split(rawEvent, NL)
        eventIdx == {i \in 1..Len(lines) : StartsWith(lines[i], EventPrefix)}
        type == IF eventIdx = {} THEN <<"message">>
                ELSE LET l == lines[Min(eventIdx)]
                     IN Trim(SubSeq(l, Len(EventPrefix) + 1, Len(l)))
        dataRaw == SelectSeq(lines, LAMBDA l :
                      ~StartsWith(l, EventPrefix) /\ StartsWith(l, DataPrefix))
        dataLines == [i \in 1..Len(dataRaw) |->
                        Trim(SubSeq(dataRaw[i], Len(DataPrefix) + 1, Len(dataRaw[i])))]
        dataString == Join(dataLines, <<NL>>)
        parsed == JsonParse(dataString)
    IN IF dataString = <<>> THEN [isEvent |-> TRUE, type |-> type, data |-> JNull]
       ELSE IF parsed.ok THEN [isEvent |-> TRUE, type |-> type, data |-> parsed.value]
       ELSE [isEvent |-> TRUE, type |-> type, data |-> JStr(dataString)]

\* A variant that drops data JSON.parse rejects
parseSSEEventDroppingRaw(rawEvent) ==
  IF Trim(rawEvent) = <<>> THEN NoEvent
  ELSE
    LET lines == Split(rawEvent, NL)
        eventIdx == {i \in 1..Len(lines) : StartsWith(lines[i], EventPrefix)}
        type == IF eventIdx = {} THEN <<"message">>
                ELSE LET l == lines[Max(eventIdx)]
                     IN Trim(SubSeq(l, Len(EventPrefix) + 1, Len(l)))
        dataRaw == SelectSeq(lines, LAMBDA l :
                      ~StartsWith(l, EventPrefix) /\ StartsWith(l, DataPrefix))
        dataLines == [i \in 1..Len(dataRaw) |->
                        Trim(SubSeq(dataRaw[i], Len(DataPrefix) + 1, Len(dataRaw[i])))]
        dataString == Join(dataLines, <<NL>>)
        parsed == JsonParse(dataString)
    IN IF dataString = <<>> THEN [isEvent |-> TRUE, type |-> type, data |-> JNull]
       ELSE IF parsed.ok THEN [isEvent |-> TRUE, type |-> type, data |-> parsed.value]
       ELSE [isEvent |-> TRUE, type |-> type, data |-> JNull]

parseSSEEvent(rawEvent) ==
  IF Trim(rawEvent) = <<>> THEN NoEvent
  ELSE
    LET lines == Split(rawEvent, NL)
        eventIdx == {i \in 1..Len(lines) : StartsWith(lines[i], EventPrefix)}
        type == IF eventIdx = {} THEN <<"message">>
                ELSE LET l == lines[Max(eventIdx)]
                     IN Trim(SubSeq(l, Len(EventPrefix) + 1, Len(l)))
        dataRaw == SelectSeq(lines, LAMBDA l :
                      ~StartsWith(l, EventPrefix) /\ StartsWith(l, DataPrefix))
        dataLines == [i \in 1..Len(dataRaw) |->
                        Trim(SubSeq(dataRaw[i], Len(DataPrefix) + 1, Len(dataRaw[i])))]
        dataString == Join(dataLines, <<NL>>)
        parsed == JsonParse(dataString)
    IN IF dataString = <<>> THEN [isEvent |-> TRUE, type |-> type, data |-> JNull]
       ELSE IF parsed.ok THEN [isEvent |-> TRUE, type |-> type, data |-> parsed.value]
       ELSE [isEvent |-> TRUE, type |-> type, data |-> JStr(dataString)]

\* ------------------------------------------------------------------------
\* agentos.ts: extractTextFromContent
\* ------------------------------------------------------------------------
\* The keys of the documents, in the order they are written on the wire
KeyOrder == <<"member_id", "agent_id", "name", "id", "text", "content", "response",
              "output", "messages", "parts", "member_responses", "session_id", "run_id">>

\* JSON.stringify
RECURSIVE Stringify(_)
Stringify(v) ==
  CASE v.t = "str" -> <<"\"">> \o v.s \o <<"\"">>
    [] v.t = "num" -> <<ToString(v.n)>>
    [] v.t = "arr" ->
         <<"[">> \o Join([i \in 1..Len(v.items) |-> Stringify(v.items[i])], <<",">>) \o <<"]">>
    [] v.t = "obj" ->
         LET keys == SelectSeq(KeyOrder, LAMBDA k : k \in DOMAIN v.f)
         IN <<"{">> \o Join([i \in 1..Len(keys) |->
                               <<"\"", keys[i], "\"", ":">> \o Stringify(v.f[keys[i]])],
                            <<",">>) \o <<"}">>
    [] OTHER -> <<"null">>

RECURSIVE extractTextFromContent(_)
\* A variant that prefers the sequences to the string fields
extractTextSequencesFirst(content) ==
  CASE content.t \in {"null", "undefined"} -> <<>>
    [] content.t = "str" -> content.s
    [] content.t = "arr" ->
         Join(NonEmpty([i \in 1..Len(content.items) |->
                          extractTextFromContent(content.items[i])]), <<NL>>)
    [] content.t = "obj" ->
         LET strField(k) == IF IsString(Field(content, k))
                            THEN <<Field(content, k).s>> ELSE <<>>
             arrField(k) == IF Field(content, k).t = "arr"
                            THEN <<extractTextFromContent(Field(content, k))>> ELSE <<>>
             candidates == arrField("content") \o arrField("messages") \o arrField("parts")
                           \o strField("text") \o strField("content")
                           \o strField("response") \o strField("output")
             preferred == SelectSeq(candidates, LAMBDA c : Trim(c) # <<>>)
         IN IF preferred # <<>> THEN preferred[1]
            ELSE IF IsObjectLike(Field(content, "content"))
                 THEN extractTextFromContent(Field(content, "content"))
                 ELSE Stringify(content)
    [] OTHER -> <<ToString(content.n)>>

extractTextFromContent(content) ==
  CASE content.t \in {"null", "undefined"} -> <<>>
    [] content.t = "str" -> content.s
    [] content.t = "arr" ->
         Join(NonEmpty([i \in 1..Len(content.items) |->
                          extractTextFromContent(content.items[i])]), <<NL>>)
    [] content.t = "obj" ->
         LET strField(k) == IF IsString(Field(content, k))
                            THEN <<Field(content, k).s>> ELSE <<>>
             arrField(k) == IF Field(content, k).t = "arr"
                            THEN <<extractTextFromContent(Field(content, k))>> ELSE <<>>
             candidates == strField("text") \o strField("content") \o strField("response")
                           \o strField("output") \o arrField("content")
                           \o arrField("messages") \o arrField("parts")
             preferred == SelectSeq(candidates, LAMBDA c : Trim(c) # <<>>)
         IN IF preferred # <<>> THEN preferred[1]
            ELSE IF IsObjectLike(Field(content, "content"))
                 THEN extractTextFromContent(Field(content, "content"))
                 ELSE Stringify(content)
    [] OTHER -> <<ToString(content.n)>>

\* ------------------------------------------------------------------------
\* agentos.ts: sanitizeCoordinatorText
\* ------------------------------------------------------------------------
\* /\bcall\s+[a-z_]+\(/i or /\bdelegate_task_to_member\b/i; the words of the
\* patterns occur in text only as the lexemes "call f(" and
\* "delegate_task_to_member"
containsCoordinatorCommand(line) ==
  \E i \in 1..Len(line) :
     /\ i = 1 \/ ~EndsInWordChar(line[i - 1])
     /\ \/ line[i] = "call f("
        \/ /\ line[i] = "delegate_task_to_member"
           /\ i = Len(line) \/ ~BeginsWithWordChar(line[i + 1])

KeepLine(line) ==
  /\ line # <<>>
  /\ ~containsCoordinatorCommand(line)
  /\ ~(LowerAtom(line[1]) = "calling" /\ (Len(line) = 1 \/ ~BeginsWithWordChar(line[2])))
  /\ LowerAtom(line[1]) \notin {"coordinator", "coordinatorpm"}
  /\ LowerAtom(line[1]) # "system:"

sanitizeCoordinatorText(text) ==
  LET lines == Split(text, NL)
      trimmed == [i \in 1..Len(lines) |-> Trim(lines[i])]
  IN Trim(Join(SelectSeq(trimmed, KeepLine), <<NL>>))

\* ------------------------------------------------------------------------
\* agentos.ts: member identifiers and member text
\* ------------------------------------------------------------------------
\* A variant that keeps the punctuation
normalizeIdentifierKeepingPunctuation(value) == ToLowerCase(value)

normalizeIdentifier(value) ==
  SelectSeq(ToLowerCase(value), LAMBDA c : c \in LowerSet \cup Digits)

IdentifierKeys == <<"member_id", "agent_id", "name", "id">>

extractMemberIdentifier(response) ==
  LET usable == SelectSeq(IdentifierKeys, LAMBDA k :
                   IsString(Field(response, k)) /\ Trim(Field(response, k).s) # <<>>)
  IN IF usable = <<>> THEN <<>> ELSE ToLowerCase(Field(response, usable[1]).s)

extractMemberText(response) ==
  LET chunk(k) == IF Field(response, k).t # "undefined"
                  THEN <<extractTextFromContent(Field(response, k))>> ELSE <<>>
      messages == IF Field(response, "messages").t = "arr"
                  THEN <<extractTextFromContent(Field(response, "messages"))>> ELSE <<>>
  IN Bind(chunk("response") \o chunk("output") \o chunk("content") \o messages,
          LAMBDA chunks :
            IF chunks = <<>> THEN extractTextFromContent(response)
            ELSE Join(NonEmpty(chunks), <<NL>>))

\* ------------------------------------------------------------------------
\* agentos.ts: the state of one sendMessageToAgentOS call
\* ------------------------------------------------------------------------
\* memberOutputs is a Map<string, string[]>: its entries in insertion order
MapHas(map, key) == \E i \in 1..Len(map) : map[i].key = key
MapGet(map, key) ==
  IF MapHas(map, key)
  THEN map[CHOOSE i \in 1..Len(map) : map[i].key = key].value
  ELSE <<>>
MapSet(map, key, value) ==
  IF MapHas(map, key)
  THEN [i \in 1..Len(map) |-> IF map[i].key = key THEN [key |-> key, value |-> value]
                                                     ELSE map[i]]
  ELSE Append(map, [key |-> key, value |-> value])

Unknown == <<"(", "u", "n", "k", "n", "o", "w", "n", ")">>

\* One entry of the list noteMemberResponses walks; rs carries memberOutputs,
\* memberIdentifiers and the record of what was noted, in the order noted
RECURSIVE noteMemberResponses(_, _)
RECURSIVE noteList(_, _)
\* A variant that notes the nested responses of an entry before the entry
notePushNestedFirst(rs, item, identifier, normalizedId, cleaned) ==
  IF cleaned = <<>> THEN rs
  ELSE Bind(IF Field(item, "member_responses").t # "undefined"
            THEN noteMemberResponses(rs, Field(item, "member_responses"))
            ELSE rs,
            LAMBDA nested :
              [nested EXCEPT
                 !.memberIdentifiers = Append(@, identifier),
                 !.memberOutputs =
                    MapSet(@, normalizedId, Append(MapGet(@, normalizedId), cleaned)),
                 !.noted = Append(@, [id |-> normalizedId, text |-> cleaned])])

notePush(rs, item, identifier, normalizedId, cleaned) ==
  IF cleaned = <<>> THEN rs
  ELSE Bind([rs EXCEPT
               !.memberIdentifiers = Append(@, identifier),
               !.memberOutputs =
                  MapSet(@, normalizedId, Append(MapGet(@, normalizedId), cleaned)),
               !.noted = Append(@, [id |-> normalizedId, text |-> cleaned])],
            LAMBDA pushed :
              IF Field(item, "member_responses").t # "undefined"
              THEN noteMemberResponses(pushed, Field(item, "member_responses"))
              ELSE pushed)

noteEntry(rs, item) ==
  Bind(extractMemberIdentifier(item), LAMBDA found :
    LET identifier == IF found = <<>> THEN Unknown ELSE found
        normalizedId == IF identifier = Unknown THEN Unknown
                        ELSE normalizeIdentifier(identifier)
    IN Bind(sanitizeCoordinatorText(Trim(extractMemberText(item))), LAMBDA cleaned :
         notePush(rs, item, identifier, normalizedId, cleaned)))

noteItem(rs, item) ==
  IF ~IsObjectLike(item) THEN rs
  ELSE Bind(rs, LAMBDA r : noteEntry(r, item))

noteList(rs, list) ==
  IF list = <<>> THEN rs ELSE noteList(noteItem(rs, Head(list)), Tail(list))

noteMemberResponses(rs, responses) ==
  noteList(rs, IF responses.t = "arr" THEN responses.items ELSE <<responses>>)

GenericRunError == <<"Team run failed.">>

\* A variant that reads any content through the content normaliser, so that a
\* structured content field would yield its text instead of the generic message
RunErrorMessageAnyContent(data) ==
  IF IsObjectLike(data) /\ HasField(data, "content")
  THEN extractTextFromContent(Field(data, "content"))
  ELSE GenericRunError

\* The message of the error thrown for a TeamRunError event
RunErrorMessage(data) ==
  IF IsObjectLike(data) /\ HasField(data, "content") /\ IsString(Field(data, "content"))
  THEN Field(data, "content").s
  ELSE GenericRunError

\* The session and run id capture at the head of the event dispatch
\* A variant whose ids are those of the last payload that has them
CaptureIdsLastWins(rs, data) ==
  IF ~IsObjectLike(data) THEN rs
  ELSE [rs EXCEPT
          !.observedSessionId =
             IF IsString(Field(data, "session_id")) THEN Field(data, "session_id") ELSE @,
          !.runId =
             IF IsString(Field(data, "run_id")) THEN Field(data, "run_id") ELSE @]

CaptureIds(rs, data) ==
  IF ~IsObjectLike(data) THEN rs
  ELSE [rs EXCEPT
          !.observedSessionId =
             IF ~Truthy(@) /\ IsString(Field(data, "session_id"))
             THEN Field(data, "session_id") ELSE @,
          !.runId =
             IF ~Truthy(@) /\ IsString(Field(data, "run_id"))
             THEN Field(data, "run_id") ELSE @]

\* A variant that takes data JSON.parse rejected for the text of the event
ConsumeContentTakingRaw(rs, data) ==
  Bind(IF IsString(data) THEN [rs EXCEPT !.aggregatedText = @ \o <<NL>> \o data.s]
       ELSE IF IsObjectLike(data) /\ HasField(data, "content")
       THEN [rs EXCEPT !.aggregatedText =
               @ \o <<NL>> \o extractTextFromContent(Field(data, "content"))]
       ELSE rs,
       LAMBDA appended :
         IF IsObjectLike(data) /\ HasField(data, "member_responses")
         THEN noteMemberResponses(appended, Field(data, "member_responses"))
         ELSE appended)

\* if (type === "TeamRunContent") { ... }
ConsumeContent(rs, data) ==
  Bind(IF IsObjectLike(data) /\ HasField(data, "content")
       THEN [rs EXCEPT !.aggregatedText =
               @ \o <<NL>> \o extractTextFromContent(Field(data, "content"))]
       ELSE rs,
       LAMBDA appended :
         IF IsObjectLike(data) /\ HasField(data, "member_responses")
         THEN noteMemberResponses(appended, Field(data, "member_responses"))
         ELSE appended)

\* A variant whose terminal event extends the accumulated text as an incremental
\* event does
ConsumeCompletedAppending(rs, data) ==
  IF ~IsObjectLike(data) THEN rs
  ELSE
    Bind(IF HasField(data, "member_responses")
         THEN noteMemberResponses(rs, Field(data, "member_responses"))
         ELSE rs,
         LAMBDA after :
           Bind(extractTextFromContent(Field(data, "content")), LAMBDA completedText :
             IF HasField(data, "content") /\ Trim(completedText) # <<>>
             THEN [after EXCEPT !.aggregatedText = @ \o <<NL>> \o completedText]
             ELSE after))

\* if (type === "TeamRunCompleted") { ... }
ConsumeCompleted(rs, data) ==
  IF ~IsObjectLike(data) THEN rs
  ELSE
    Bind(IF HasField(data, "member_responses")
         THEN noteMemberResponses(rs, Field(data, "member_responses"))
         ELSE rs,
         LAMBDA after :
           Bind(extractTextFromContent(Field(data, "content")), LAMBDA completedText :
             IF HasField(data, "content") /\ Trim(completedText) # <<>>
             THEN [after EXCEPT !.aggregatedText = completedText]
             ELSE after))

Separator == <<NL, NL>>

\* A variant that forgets the tail retained from the earlier chunks
AppendChunkDroppingTail(buf, chunk) == chunk

\* buffer += textDecoder.decode(value, { stream: true })
AppendChunk(buf, chunk) == buf \o chunk

\* The dispatch on the event type, for the types that do not throw
Dispatch(rs, type, data) ==
  Bind(IF type = <<"TeamRunContent">> THEN ConsumeContent(rs, data) ELSE rs,
       LAMBDA afterContent :
         IF type = <<"TeamRunCompleted">>
         THEN ConsumeCompleted(afterContent, data) ELSE afterContent)

\* The record of a dispatched event (not program state)
Seen(rs, type, data) ==
  [rs EXCEPT !.events = Append(@,
     [type |-> type, data |-> data, aggregatedText |-> rs.aggregatedText,
      memberOutputs |-> rs.memberOutputs])]

\* throw new Error(errorMessage)
Throw(rs, data) == [rs EXCEPT !.thrown = TRUE, !.error = RunErrorMessage(data)]

\* processBuffer: rs.thrown is set, with rs.error, when the loop throws
RECURSIVE processBuffer(_)
LoopBody(sliced, parsedEvent) ==
  IF ~parsedEvent.isEvent THEN processBuffer(sliced)
  ELSE Bind(CaptureIds(sliced, parsedEvent.data), LAMBDA captured :
         IF parsedEvent.type = <<"TeamRunError">>
         THEN Throw(Seen(captured, parsedEvent.type, parsedEvent.data), parsedEvent.data)
         ELSE Bind(Dispatch(captured, parsedEvent.type, parsedEvent.data),
                   LAMBDA consumed :
                     processBuffer(Seen(consumed, parsedEvent.type, parsedEvent.data))))

\* A variant that leaves the second newline of the separator in the buffer
SliceKeepingNewline(rs, separatorIndex) ==
  [rs EXCEPT !.buffer = SubSeq(@, separatorIndex + 1, Len(@)),
             !.frames = Append(@, SubSeq(rs.buffer, 1, separatorIndex - 1))]

\* const rawEvent = buffer.slice(0, separatorIndex);
\* buffer = buffer.slice(separatorIndex + 2)
Slice(rs, separatorIndex) ==
  [rs EXCEPT !.buffer = SubSeq(@, separatorIndex + 2, Len(@)),
             !.frames = Append(@, SubSeq(rs.buffer, 1, separatorIndex - 1))]

LoopFrom(rs) ==
  LET separatorIndex == IndexOf(rs.buffer, Separator)
  IN IF separatorIndex = 0 THEN rs
     ELSE Bind(parseSSEEvent(SubSeq(rs.buffer, 1, separatorIndex - 1)),
               LAMBDA parsedEvent : LoopBody(Slice(rs, separatorIndex), parsedEvent))

processBuffer(rs) == Bind(rs, LoopFrom)

Trailer == <<NL, NL, "---", NL, "Identifiers seen:">>

\* Array.from(new Set(list)): the first occurrence of each element, in order
Distinct(list) ==
  LET first == {i \in 1..Len(list) : \A j \in 1..(i - 1) : list[j] # list[i]}
      RECURSIVE pick(_)
      pick(i) == IF i > Len(list) THEN <<>>
                 ELSE (IF i \in first THEN <<list[i]>> ELSE <<>>) \o pick(i + 1)
  IN pick(1)

RECURSIVE Flatten(_)
Flatten(lists) == IF lists = <<>> THEN <<>> ELSE Head(lists) \o Flatten(Tail(lists))

\* A variant that prefers the free text to the outputs of the other members
FinalTextFreeTextFirst(rs, targetId) ==
  LET cleanedTargetOutputs == NonEmpty(MapGet(rs.memberOutputs, targetId))
      others == SelectSeq(rs.memberOutputs, LAMBDA e : e.key # targetId)
      fallbackOutputs == NonEmpty(Flatten([i \in 1..Len(others) |-> others[i].value]))
      coordinatorFallback == sanitizeCoordinatorText(rs.aggregatedText)
  IN IF cleanedTargetOutputs # <<>> THEN Join(cleanedTargetOutputs, Separator)
     ELSE IF coordinatorFallback # <<>> THEN coordinatorFallback
     ELSE Join(fallbackOutputs, Separator)

\* The text resolved at the end of the stream for the target member
FinalText(rs, targetId) ==
  LET cleanedTargetOutputs == NonEmpty(MapGet(rs.memberOutputs, targetId))
      others == SelectSeq(rs.memberOutputs, LAMBDA e : e.key # targetId)
      fallbackOutputs == NonEmpty(Flatten([i \in 1..Len(others) |-> others[i].value]))
      coordinatorFallback == sanitizeCoordinatorText(rs.aggregatedText)
  IN IF cleanedTargetOutputs # <<>> THEN Join(cleanedTargetOutputs, Separator)
     ELSE IF fallbackOutputs # <<>> THEN Join(fallbackOutputs, Separator)
     ELSE coordinatorFallback

\* The value sendMessageToAgentOS returns
RunResult(rs, targetId) ==
  [text |-> Trim(FinalText(rs, targetId)) \o Trailer \o <<SP>>
            \o Join(Distinct(rs.memberIdentifiers), <<",", SP>>),
   sessionId |-> rs.observedSessionId,
   runId |-> rs.runId]

\* ------------------------------------------------------------------------
\* The response streams the model reads
\* ------------------------------------------------------------------------
Frame(kind, payload) == <<"event:", kind, NL, "data:", payload>>

\* The frames of an ordinary run
CoreFrames ==
  << Frame("TeamRunContent", "{content:A}"),
     Frame("TeamRunContent", "{members:[R]}"),
     Frame("TeamRunContent", "{members:[V]}"),
     Frame("TeamRunCompleted", "{content:B}"),
     Frame("TeamRunCompleted", "{content:blank}"),
     Frame("TeamRunCompleted", "{content:B,members:[R]}"),
     Frame("TeamRunError", "{content:A}") >>

\* The unusual ones: coordinator chatter, data that is not JSON, an error with
\* such data, a member without text that has a nested member, an error whose
\* content is no string, an error without data, data without an event line, an
\* event of another kind
EdgeFrames ==
  << Frame("TeamRunContent", "{content:chatter}"),
     Frame("TeamRunContent", "x"),
     Frame("TeamRunError", "x"),
     Frame("TeamRunContent", "{members:[{members:[R]}]}"),
     Frame("TeamRunError", "{content:{text:B}}"),
     <<"event:", SP, "TeamRunError">>,
     <<"data:", SP, "{session_id:s1,run_id:r1}">>,
     Frame("RunStarted", "{session_id:s2,content:A}") >>

FrameCatalogue == CoreFrames \o EdgeFrames

\* The streams made of at most n of the given frames, each followed by a separator
RECURSIVE EventStreams(_, _)
EventStreams(catalogue, n) ==
  IF n = 0 THEN {<<>>}
  ELSE LET shorter == EventStreams(catalogue, n - 1)
       IN shorter \cup {s \o catalogue[i] \o Separator :
                          s \in shorter, i \in 1..Len(catalogue)}

\* Every text of at most MaxLen atoms over a small alphabet: blank lines in any
\* number, unterminated tails, an error event cut anywhere
Alphabet == {NL, "x", "event:", "TeamRunError"}
ShortTexts == UNION {[1..n -> Alphabet] : n \in 0..MaxLen}

\* The streams that end in a frame of an ordinary run without its separator
TailStreams == {CoreFrames[i] : i \in 1..Len(CoreFrames)}

\* The streams of a frame whose data is not JSON and an ordinary frame after it
RawThenCore ==
  {Frame("TeamRunContent", "x") \o Separator \o CoreFrames[i] \o Separator :
     i \in 1..Len(CoreFrames)}

\* The streams of two frames that carry a session id and a run id, the same,
\* others or empty ones
IdFrames ==
  << <<"data:", SP, "{session_id:s1,run_id:r1}">>,
     Frame("RunStarted", "{session_id:s2,run_id:r2}"),
     Frame("TeamRunContent", "{session_id:,run_id:}") >>
IdStreams ==
  {IdFrames[i] \o Separator \o IdFrames[j] \o Separator :
     i \in 1..Len(IdFrames), j \in 1..Len(IdFrames)}

\* The streams of an ordinary frame, an event of another kind that carries a
\* content and member responses, and an incremental event after them
OtherKindStreams ==
  {CoreFrames[i] \o Separator \o Frame("RunStarted", "{content:B,members:[R]}")
     \o Separator \o Frame("TeamRunContent", "{content:A}") \o Separator :
     i \in 1..Len(CoreFrames)}

Streams ==
  ShortTexts \cup EventStreams(CoreFrames, MaxEvents)
             \cup EventStreams(FrameCatalogue, MaxMixed)
             \cup TailStreams \cup RawThenCore \cup IdStreams \cup OtherKindStreams

Targets == {JUndef, JStr(VISUAL_AGENT_ID)}
SessionArgs == {JNull, JStr(<<"s0">>)}

\* ------------------------------------------------------------------------
\* The Home page: constants and helpers
\* ------------------------------------------------------------------------
MaxRequests == 3
MaxRequestsLong == 4
MaxRequestsFair == 2
MaxClock == 2

USE_VISUAL_AGENT == FALSE
PLACEHOLDER_IMAGE == <<"/assets/soap.jpg">>
PLACEHOLDER_VISUAL_MESSAGE ==
  <<"VisualAgent placeholder output. Real visuals will appear here once the agent is wired up.">>
PlaceholderIdentifiers == VISUAL_AGENT_ID \o <<SP, "(placeholder)">>
NoResearchContent == <<"ResearchAgent did not return any content.">>
NoProductContent == <<"ProductAgent did not return any content.">>

\* What the user can type into the idea box and into the revision boxes
IdeaInputs == {<<SP>>, <<SP, "i">>}
RevisionInputs == {<<SP>>, <<"f", SP>>}
VisualRevisionInputs == {<<"f", SP>>}

\* What a call of sendMessageToAgentOS can return to the page: a text in the
\* envelope RunResult builds, and the session id it reports
Envelope(finalText, identifiersDisplay) ==
  Trim(finalText) \o Trailer \o <<SP>> \o identifiersDisplay
ResultTexts == {Envelope(<<>>, <<>>), Envelope(<<"T">>, <<"m">>)}
StreamSessionIds == {JUndef, JStr(<<"s1">>)}
\* observedSessionId = sessionId || undefined, then first-wins from the stream
ResultSessionIds(sid) == IF Truthy(sid) THEN {sid} ELSE StreamSessionIds
\* The messages of the errors it can throw
ErrorMessages == {GenericRunError, <<"AgentOS request failed with status 500. ">>}

\* result.sessionId ?? sessionId
Coalesce(a, b) == IF a.t \in {"null", "undefined"} THEN b ELSE a

splitDebugInfo(raw) ==
  IF ~Truthy(raw) THEN [body |-> <<>>, identifiers |-> <<>>]
  ELSE LET idx == IndexOf(raw.s, Trailer)
       IN IF idx = 0 THEN [body |-> Trim(raw.s), identifiers |-> <<>>]
          ELSE [body |-> Trim(SubSeq(raw.s, 1, idx - 1)),
                identifiers |-> Trim(SubSeq(raw.s, idx + Len(Trailer), Len(raw.s)))]

\* The image URLs of a markdown text, at most three: the atoms that are URLs
ImageUrls == {"http://img/1.png", "http://img/2.png", "http://img/3.png"}
extractImageUrls(markdown) ==
  LET urls == Distinct(SelectSeq(markdown, LAMBDA a : a \in ImageUrls))
  IN SubSeq(urls, 1, IF Len(urls) < 3 THEN Len(urls) ELSE 3)

\* createPlaceholderVisuals at Date.now() = now
createPlaceholderVisuals(now) ==
  [index \in 1..3 |->
     [id |-> <<"placeholder-", ToString(now), "-", ToString(index - 1)>>,
      url |-> PLACEHOLDER_IMAGE,
      title |-> <<"Concept ", ToString(index)>>]]

visualOptionsFromUrls(urls, now) ==
  [index \in 1..Len(urls) |->
     [id |-> <<"visual-", ToString(now), "-", ToString(index - 1)>>,
      url |-> <<urls[index]>>,
      title |-> <<"Concept ", ToString(index)>>]]

\* ------------------------------------------------------------------------
\* State
\* ------------------------------------------------------------------------
VARIABLES
  \* one sendMessageToAgentOS call
  response,          \* the Response fetch resolved with
  stream,            \* the text the response body delivers
  pos,               \* how many atoms of it the reader has delivered
  sepSplit,          \* a chunk has ended between the two newlines of a separator
  argMessage,        \* the message option
  formData,          \* the form data fetch was called with, none before the call
  argSessionId,      \* the sessionId option
  argTargetMemberId, \* the targetMemberId option
  buffer, aggregatedText, memberOutputs, memberIdentifiers, observedSessionId, runId,
  frames,            \* the raw frames processBuffer has sliced off, in order
  events,            \* the decoded events it has dispatched, in order
  noted,             \* the member outputs noted, in order
  pc,                \* "called", "invalid", "requested", "fetched", "refused",
                     \* "reading", "returned" or "threw"
  thrown,            \* the message of the error thrown
  returned,          \* the value returned
  \* one call of a helper of agentos.ts
  call,              \* the helper called, its argument and what it returned
  \* the Home page
  home,              \* the state hooks of the component, by name
  pending,           \* the sendMessageToAgentOS calls awaited, with their closures
  issued,            \* how many calls have been issued so far
  now,               \* the clock Date.now() reads
  last,              \* the handler or completion that ran last
  budget,            \* how many calls the exploration lets the page issue
  storedIds          \* the session ids setSessionId has stored so far

runVars == <<response, stream, pos, sepSplit, argMessage, formData, argSessionId,
             argTargetMemberId, buffer,
             aggregatedText, memberOutputs, memberIdentifiers, observedSessionId,
             runId, frames, events, noted, pc, thrown, returned, call>>

homeVars == <<home, pending, issued, now, last, budget, storedIds>>

vars == <<runVars, homeVars>>

\* The locals of the call as one record, for processBuffer
Locals ==
  [buffer |-> buffer, aggregatedText |-> aggregatedText,
   memberOutputs |-> memberOutputs, memberIdentifiers |-> memberIdentifiers,
   observedSessionId |-> observedSessionId, runId |-> runId,
   frames |-> frames, events |-> events, noted |-> noted,
   thrown |-> FALSE, error |-> <<>>]

\* The locals as sendMessageToAgentOS declares them
FreshLocals(sid) ==
  [buffer |-> <<>>, aggregatedText |-> <<>>, memberOutputs |-> <<>>,
   memberIdentifiers |-> <<>>,
   observedSessionId |-> IF Truthy(sid) THEN sid ELSE JUndef,
   runId |-> JUndef, frames |-> <<>>, events |-> <<>>, noted |-> <<>>,
   thrown |-> FALSE, error |-> <<>>]

StoreLocals(rs) ==
  /\ buffer' = rs.buffer
  /\ aggregatedText' = rs.aggregatedText
  /\ memberOutputs' = rs.memberOutputs
  /\ memberIdentifiers' = rs.memberIdentifiers
  /\ observedSessionId' = rs.observedSessionId
  /\ runId' = rs.runId
  /\ frames' = rs.frames
  /\ events' = rs.events
  /\ noted' = rs.noted

\* const targetId = normalizeIdentifier(targetMemberId ?? RESEARCH_AGENT_ID)
TargetId(targetMemberId) ==
  normalizeIdentifier(IF targetMemberId.t \in {"null", "undefined"}
                      THEN RESEARCH_AGENT_ID ELSE targetMemberId.s)

\* ------------------------------------------------------------------------
\* The Home page: state, render conditions, helpers of the component
\* ------------------------------------------------------------------------

\* The useState initial values
InitialHome ==
  [input |-> <<>>, idea |-> <<>>, sessionId |-> JNull,
   isSubmitting |-> FALSE, isGeneratingVisuals |-> FALSE, isGeneratingProduct |-> FALSE,
   researchBody |-> JNull, researchIdentifiers |-> <<>>,
   visualBody |-> JNull, visualIdentifiers |-> <<>>, visualOptions |-> <<>>,
   selectedVisualId |-> JNull,
   showVisualChoicePrompt |-> FALSE, showVisualSatisfactionPrompt |-> FALSE,
   showVisualRevisionInput |-> FALSE, visualRevisionInput |-> <<>>,
   productBody |-> JNull, productIdentifiers |-> <<>>,
   showResearchApprovalPrompt |-> FALSE, showResearchRevisionInput |-> FALSE,
   researchRevisionInput |-> <<>>]

NoStep == [op |-> "mount", n |-> 0, handler |-> "", result |-> JNull]
Step(op) == [op |-> op, n |-> 0, handler |-> "", result |-> JNull]

hasResearch(h) == Truthy(h.researchBody)
hasVisuals(h) == Len(h.visualOptions) > 0 \/ Truthy(h.visualBody)
hasProduct(h) == Truthy(h.productBody)

\* visualOptions.find(option => option.id === selectedVisualId) ?? null
selectedVisual(h) ==
  LET hits == SelectSeq(h.visualOptions, LAMBDA option : JStr(option.id) = h.selectedVisualId)
  IN IF hits = <<>> THEN JNull ELSE JObj(Head(hits))

\* What the component renders, so what the user can act on
IdeaFormShown(h) == ~hasResearch(h) /\ ~h.isSubmitting
ResearchApprovalShown(h) == hasResearch(h) /\ h.showResearchApprovalPrompt
ResearchRevisionShown(h) == hasResearch(h) /\ h.showResearchRevisionInput
VisualOptionsShown(h) == hasResearch(h) /\ hasVisuals(h)
VisualSatisfactionShown(h) ==
  VisualOptionsShown(h) /\ h.showVisualSatisfactionPrompt /\ Truthy(h.selectedVisualId)
VisualRevisionShown(h) ==
  VisualOptionsShown(h) /\ h.showVisualRevisionInput /\ Truthy(h.selectedVisualId)

resetVisualState(h) ==
  [h EXCEPT !.visualBody = JNull, !.visualIdentifiers = <<>>, !.visualOptions = <<>>,
            !.selectedVisualId = JNull, !.showVisualChoicePrompt = FALSE,
            !.showVisualSatisfactionPrompt = FALSE, !.showVisualRevisionInput = FALSE,
            !.visualRevisionInput = <<>>]

resetProductState(h) ==
  [h EXCEPT !.productBody = JNull, !.productIdentifiers = <<>>,
            !.isGeneratingProduct = FALSE]

\* The prompts, the fixed parts of each template as one atom
SubmitPrompt(message) ==
  <<"Please run stage-gated viability research as ResearchAgent for this product idea: \"">>
  \o message \o <<"\". Respond with the updated ResearchAgent report in markdown.">>

\* A variant of the revision prompt that leaves the user's feedback out
ResearchRevisionPromptWithoutFeedback(idea, feedback) ==
  <<"Re-run viability research as ResearchAgent.", NL, "Previous concept: \"">> \o idea
  \o <<"\".", NL,
       "Update the concept accordingly and provide the refreshed ResearchAgent report in markdown.">>

ResearchRevisionPrompt(idea, feedback) ==
  <<"Re-run viability research as ResearchAgent.", NL, "Previous concept: \"">> \o idea
  \o <<"\".", NL, "User feedback for changes: \"">> \o feedback
  \o <<"\".", NL,
       "Update the concept accordingly and provide the refreshed ResearchAgent report in markdown.">>

VisualBasePrompt(idea) ==
  <<"Move the workflow forward to visuals and delegate to VisualAgent for the concept \"">>
  \o idea \o <<"\".", NL, "Provide exactly three distinct image mockups in markdown.">>

VisualRevisionPrompt(priorVisualId, idea, feedback) ==
  IF Truthy(priorVisualId)
  THEN <<"We previously selected visual option \"">> \o priorVisualId.s
       \o <<"\" for the concept \"">> \o idea
       \o <<"\".", NL, "Please revise the visuals based on this user feedback: \"">>
       \o feedback \o <<"\".", NL, "Return exactly three updated mockups in markdown.">>
  ELSE VisualBasePrompt(idea)

ProductPrompt(h) ==
  LET visual == selectedVisual(h)
      visualSummary ==
        IF Truthy(visual)
        THEN <<"Selected visual nickname: ">> \o visual.f.title
             \o <<NL, "Selected visual image URL: ">> \o visual.f.url
        ELSE <<"Selected visual details could not be determined from the UI state.">>
      researchSummary ==
        IF Truthy(h.researchBody) /\ Trim(h.researchBody.s) # <<>>
        THEN Trim(h.researchBody.s)
        ELSE <<"ResearchAgent did not provide a summary.">>
      visualNotes ==
        IF Truthy(h.visualBody) /\ Trim(h.visualBody.s) # <<>>
        THEN Trim(h.visualBody.s)
        ELSE <<"VisualAgent did not provide supporting notes.">>
  IN <<"Move the workflow forward to spec and delegate to ProductAgent.", NL,
       "Concept: \"">> \o h.idea \o <<"\".", NL>> \o visualSummary
     \o <<NL, NL, "Here is the approved viability research report:", NL>> \o researchSummary
     \o <<NL, NL, "Here are the VisualAgent notes for the chosen direction:", NL>> \o visualNotes
     \o <<NL, NL, "Provide a detailed product spec in markdown.">>

\* The form sendMessageToAgentOS posts: session_id only for a truthy sessionId
FormData(message, sessionId) ==
  [message |-> message, stream |-> "true", monitor |-> "true",
   session_id |-> IF Truthy(sessionId) THEN sessionId ELSE JUndef]

\* The form a call of the page posts
Posted(request) == FormData(request.message, request.sessionId)

\* One call of sendMessageToAgentOS and what its caller's closure holds
Request(handler, message, h, target, feedback, priorVisualId, placeholder) ==
  [n |-> issued + 1, handler |-> handler, message |-> message,
   sessionId |-> h.sessionId, targetMemberId |-> target,
   idea |-> h.idea, input |-> Trim(h.input), feedback |-> feedback,
   priorVisualId |-> priorVisualId, placeholder |-> placeholder]

Issue(request) ==
  /\ pending' = pending \cup {request}
  /\ issued' = issued + 1

InitPage(limit) ==
  /\ home = InitialHome
  /\ pending = {}
  /\ issued = 0
  /\ now = 0
  /\ last = NoStep
  /\ budget = limit
  /\ storedIds = {}

InitHomeVars == InitPage(MaxRequests)

\* No helper has been called
NoCall == [fn |-> "", arg |-> <<>>, result |-> <<>>]

\* The responses fetch can resolve with: response.ok, response.status, whether
\* response.body is set, and whether response.text() rejects
Responses ==
  {[ok |-> TRUE, status |-> 200, body |-> TRUE, textFails |-> FALSE],
   [ok |-> TRUE, status |-> 200, body |-> FALSE, textFails |-> FALSE],
   [ok |-> FALSE, status |-> 500, body |-> TRUE, textFails |-> FALSE],
   [ok |-> FALSE, status |-> 500, body |-> TRUE, textFails |-> TRUE],
   [ok |-> FALSE, status |-> 500, body |-> FALSE, textFails |-> FALSE]}

\* The body texts of the responses that are not ok: none, a word, an event frame
ErrorBodies == {<<>>, <<"E">>, CoreFrames[1] \o Separator}

\* A variant of the response check that looks at the body only
ResponseFailsWithoutBodyOnly(r) == ~r.body

\* !response.ok || !response.body
ResponseFails(r) == ~r.ok \/ ~r.body

\* await response.text().catch(() => "")
ErrorText(r, text) == IF r.textFails \/ ~r.body THEN <<>> ELSE text

\* `AgentOS request failed with status ${response.status}. ${errorText}`
RequestFailedMessage(r, text) ==
  <<"AgentOS request failed with status ", ToString(r.status), ". ">> \o ErrorText(r, text)

\* The messages a caller can pass: empty, blank, and one with text
Messages == {<<>>, <<SP, NL>>, <<SP, "i">>}
EmptyMessage == <<"Message cannot be empty.">>
NoRequest == JUndef
NoResponse == [ok |-> TRUE, status |-> 200, body |-> TRUE, textFails |-> FALSE]

\* A variant that takes a message of blanks for a message
MessageIsEmptyUntrimmed(message) == message = <<>>

\* !message.trim()
MessageIsEmpty(message) == Trim(message) = <<>>

InitRun ==
  /\ response = NoResponse
  /\ stream = <<>>
  /\ argMessage \in Messages
  /\ formData = NoRequest
  /\ argSessionId \in SessionArgs
  /\ argTargetMemberId \in Targets
  /\ pos = 0
  /\ sepSplit = FALSE
  /\ buffer = <<>>
  /\ aggregatedText = <<>>
  /\ memberOutputs = <<>>
  /\ memberIdentifiers = <<>>
  /\ observedSessionId = FreshLocals(argSessionId).observedSessionId
  /\ runId = JUndef
  /\ frames = <<>>
  /\ events = <<>>
  /\ noted = <<>>
  /\ pc = "called"
  /\ thrown = <<>>
  /\ returned = JUndef
  /\ call = NoCall
  /\ InitHomeVars

\* The call up to its first await: the message is checked, the form data is
\* built and fetch is called with it
SendRequest ==
  /\ pc = "called"
  /\ IF MessageIsEmpty(argMessage)
     THEN /\ pc' = "invalid"
          /\ thrown' = EmptyMessage
          /\ UNCHANGED formData
     ELSE /\ pc' = "requested"
          /\ formData' = FormData(argMessage, argSessionId)
          /\ UNCHANGED thrown
  /\ UNCHANGED <<response, stream, pos, sepSplit, argMessage, argSessionId,
                 argTargetMemberId, buffer, aggregatedText, memberOutputs,
                 memberIdentifiers, observedSessionId, runId, frames, events, noted,
                 returned, call>>
  /\ UNCHANGED homeVars

\* fetch resolves with a response and the text its body will deliver
FetchResolves ==
  /\ pc = "requested"
  /\ response' \in Responses
  /\ stream' \in (IF ~response'.body THEN {<<>>}
                  ELSE IF response'.ok THEN Streams ELSE ErrorBodies)
  /\ pc' = "fetched"
  /\ UNCHANGED <<pos, sepSplit, argMessage, formData, argSessionId, argTargetMemberId,
                 buffer, aggregatedText, memberOutputs, memberIdentifiers,
                 observedSessionId, runId, frames, events, noted, thrown, returned, call>>
  /\ UNCHANGED homeVars

\* fetch has resolved: the response is checked before a reader is taken
CheckResponse ==
  /\ pc = "fetched"
  /\ IF ResponseFails(response)
     THEN /\ pc' = "refused"
          /\ thrown' = RequestFailedMessage(response, stream)
     ELSE /\ pc' = "reading"
          /\ UNCHANGED thrown
  /\ UNCHANGED <<response, stream, pos, sepSplit, argMessage, formData, argSessionId,
                 argTargetMemberId,
                 buffer, aggregatedText, memberOutputs, memberIdentifiers,
                 observedSessionId, runId, frames, events, noted, returned, call>>
  /\ UNCHANGED homeVars

\* One turn of the read loop: reader.read() delivers the next n atoms, the chunk
\* is appended to the buffer and processBuffer runs
ReadChunk ==
  /\ pc = "reading"
  /\ \E n \in 1..(Len(stream) - pos) :
       LET chunk == SubSeq(stream, pos + 1, pos + n)
           rs == processBuffer([Locals EXCEPT !.buffer = AppendChunk(@, chunk)])
       IN /\ StoreLocals(rs)
          /\ pos' = pos + n
          /\ sepSplit' = (sepSplit \/ (pos + n < Len(stream) /\ stream[pos + n] = NL
                                        /\ stream[pos + n + 1] = NL))
          /\ pc' = IF rs.thrown THEN "threw" ELSE "reading"
          /\ thrown' = IF rs.thrown THEN rs.error ELSE thrown
  /\ UNCHANGED <<response, stream, argMessage, formData, argSessionId, argTargetMemberId,
                 returned, call>>
  /\ UNCHANGED homeVars

\* reader.read() reports done: the loop breaks, processBuffer runs once more and
\* the result is resolved
StreamEnd ==
  /\ pc = "reading"
  /\ pos = Len(stream)
  /\ LET rs == processBuffer(Locals)
     IN /\ StoreLocals(rs)
        /\ pc' = IF rs.thrown THEN "threw" ELSE "returned"
        /\ thrown' = IF rs.thrown THEN rs.error ELSE thrown
        /\ returned' = IF rs.thrown THEN returned
                       ELSE RunResult(rs, TargetId(argTargetMemberId))
  /\ UNCHANGED <<response, stream, pos, sepSplit, argMessage, formData, argSessionId,
                 argTargetMemberId, call>>
  /\ UNCHANGED homeVars

NextRun == SendRequest \/ FetchResolves \/ CheckResponse \/ ReadChunk \/ StreamEnd

SpecRun == InitRun /\ [][NextRun]_vars

\* ------------------------------------------------------------------------
\* The Home page: the handlers
\* ------------------------------------------------------------------------
StayIdle == UNCHANGED <<runVars, budget>>

\* onChange of the idea box
SetInput ==
  /\ IdeaFormShown(home)
  /\ \E value \in IdeaInputs : home' = [home EXCEPT !.input = value]
  /\ last' = Step("setInput")
  /\ UNCHANGED <<pending, issued, now>>
  /\ StayIdle
  /\ UNCHANGED storedIds

HandleSubmit ==
  /\ IdeaFormShown(home)
  /\ LET message == Trim(home.input)
     IN IF message = <<>> \/ home.isSubmitting
        THEN UNCHANGED <<home, pending, issued>>
        ELSE /\ issued < budget
             /\ home' = resetProductState(resetVisualState(
                          [home EXCEPT !.isSubmitting = TRUE,
                                       !.showResearchApprovalPrompt = FALSE,
                                       !.showResearchRevisionInput = FALSE,
                                       !.researchBody = JNull,
                                       !.researchIdentifiers = <<>>]))
             /\ Issue(Request("handleSubmit", SubmitPrompt(message), home,
                              RESEARCH_AGENT_ID, <<>>, JNull, <<>>))
  /\ last' = Step("handleSubmit")
  /\ UNCHANGED now
  /\ StayIdle
  /\ UNCHANGED storedIds

\* The branch of runVisualAgent that awaits nothing
PlaceholderVisuals(h, placeholder) ==
  [h EXCEPT !.visualBody = JStr(PLACEHOLDER_VISUAL_MESSAGE),
            !.visualIdentifiers = PlaceholderIdentifiers,
            !.visualOptions = placeholder,
            !.showVisualChoicePrompt = TRUE,
            !.showVisualSatisfactionPrompt = FALSE,
            !.showVisualRevisionInput = FALSE,
            !.selectedVisualId = JNull]

\* runVisualAgent up to its return or its await, called with the state h its
\* caller has just set; the closure still holds the state of the render (home)
runVisualAgent(h, priorVisualId, feedback) ==
  LET placeholder == createPlaceholderVisuals(now)
  IN /\ now < MaxClock
     /\ now' = now + 1
     /\ IF ~USE_VISUAL_AGENT
        THEN /\ home' = [PlaceholderVisuals(h, placeholder) EXCEPT !.isGeneratingVisuals = FALSE]
             /\ UNCHANGED <<pending, issued>>
        ELSE /\ issued < budget
             /\ home' = h
             /\ Issue(Request("runVisualAgent",
                              VisualRevisionPrompt(priorVisualId, home.idea, feedback),
                              home, VISUAL_AGENT_ID, feedback, priorVisualId, placeholder))

HandleResearchApprove ==
  /\ ResearchApprovalShown(home)
  /\ IF home.isGeneratingVisuals
     THEN UNCHANGED <<home, pending, issued, now>>
     ELSE runVisualAgent(
            [resetProductState(resetVisualState(
               [home EXCEPT !.showResearchApprovalPrompt = FALSE,
                            !.showResearchRevisionInput = FALSE]))
             EXCEPT !.isGeneratingVisuals = TRUE],
            JNull, <<>>)
  /\ last' = Step("handleResearchApprove")
  /\ StayIdle
  /\ UNCHANGED storedIds

\* A variant of the reject handler that forgets the stored report
HandleResearchRejectForgetting ==
  /\ ResearchApprovalShown(home)
  /\ home' = resetProductState(resetVisualState(
               [home EXCEPT !.showResearchApprovalPrompt = FALSE,
                            !.showResearchRevisionInput = TRUE,
                            !.researchBody = JStr(<<"(rejected)">>)]))
  /\ last' = Step("handleResearchReject")
  /\ UNCHANGED <<pending, issued, now>>
  /\ StayIdle
  /\ UNCHANGED storedIds

HandleResearchReject ==
  /\ ResearchApprovalShown(home)
  /\ home' = resetProductState(resetVisualState(
               [home EXCEPT !.showResearchApprovalPrompt = FALSE,
                            !.showResearchRevisionInput = TRUE]))
  /\ last' = Step("handleResearchReject")
  /\ UNCHANGED <<pending, issued, now>>
  /\ StayIdle
  /\ UNCHANGED storedIds

\* onChange of the viability revision box
SetResearchRevisionInput ==
  /\ ResearchRevisionShown(home)
  /\ \E value \in RevisionInputs : home' = [home EXCEPT !.researchRevisionInput = value]
  /\ last' = Step("setResearchRevisionInput")
  /\ UNCHANGED <<pending, issued, now>>
  /\ StayIdle
  /\ UNCHANGED storedIds

HandleResearchRevisionSubmit ==
  /\ ResearchRevisionShown(home)
  /\ LET feedback == Trim(home.researchRevisionInput)
     IN IF feedback = <<>> \/ home.isSubmitting
        THEN UNCHANGED <<home, pending, issued>>
        ELSE /\ issued < budget
             /\ home' = resetProductState(resetVisualState(
                          [home EXCEPT !.isSubmitting = TRUE,
                                       !.showResearchRevisionInput = FALSE,
                                       !.showResearchApprovalPrompt = FALSE,
                                       !.researchBody = JNull,
                                       !.researchIdentifiers = <<>>]))
             /\ Issue(Request("handleResearchRevisionSubmit",
                              ResearchRevisionPrompt(home.idea, feedback), home,
                              RESEARCH_AGENT_ID, feedback, JNull, <<>>))
  /\ last' = Step("handleResearchRevisionSubmit")
  /\ UNCHANGED now
  /\ StayIdle
  /\ UNCHANGED storedIds

\* A variant of Cancel that reopens the approval prompt and leaves the revision
\* form open
CancelResearchRevisionKeepingForm ==
  /\ ResearchRevisionShown(home)
  /\ home' = [home EXCEPT !.showResearchApprovalPrompt = TRUE]
  /\ last' = Step("cancelResearchRevision")
  /\ UNCHANGED <<pending, issued, now>>
  /\ StayIdle
  /\ UNCHANGED storedIds

\* Cancel of the viability revision form
CancelResearchRevision ==
  /\ ResearchRevisionShown(home)
  /\ home' = [home EXCEPT !.showResearchRevisionInput = FALSE,
                          !.showResearchApprovalPrompt = TRUE]
  /\ last' = Step("cancelResearchRevision")
  /\ UNCHANGED <<pending, issued, now>>
  /\ StayIdle
  /\ UNCHANGED storedIds

HandleSelectVisual ==
  /\ VisualOptionsShown(home)
  /\ \E index \in 1..Len(home.visualOptions) :
       home' = [home EXCEPT !.selectedVisualId = JStr(home.visualOptions[index].id),
                            !.showVisualSatisfactionPrompt = TRUE,
                            !.showVisualRevisionInput = FALSE]
  /\ last' = Step("handleSelectVisual")
  /\ UNCHANGED <<pending, issued, now>>
  /\ StayIdle
  /\ UNCHANGED storedIds

\* A variant of handleVisualReject that also drops the selection
HandleVisualRejectClearingSelection ==
  /\ VisualSatisfactionShown(home)
  /\ home' = resetProductState(
               [home EXCEPT !.showVisualSatisfactionPrompt = FALSE,
                            !.showVisualRevisionInput = TRUE,
                            !.visualRevisionInput = <<>>,
                            !.selectedVisualId = JNull])
  /\ last' = Step("handleVisualReject")
  /\ UNCHANGED <<pending, issued, now>>
  /\ StayIdle
  /\ UNCHANGED storedIds

HandleVisualReject ==
  /\ VisualSatisfactionShown(home)
  /\ home' = resetProductState(
               [home EXCEPT !.showVisualSatisfactionPrompt = FALSE,
                            !.showVisualRevisionInput = TRUE,
                            !.visualRevisionInput = <<>>])
  /\ last' = Step("handleVisualReject")
  /\ UNCHANGED <<pending, issued, now>>
  /\ StayIdle
  /\ UNCHANGED storedIds

\* onChange of the visuals revision box
SetVisualRevisionInput ==
  /\ VisualRevisionShown(home)
  /\ \E value \in VisualRevisionInputs : home' = [home EXCEPT !.visualRevisionInput = value]
  /\ last' = Step("setVisualRevisionInput")
  /\ UNCHANGED <<pending, issued, now>>
  /\ StayIdle
  /\ UNCHANGED storedIds

HandleVisualRevisionSubmit ==
  /\ VisualRevisionShown(home)
  /\ LET feedback == Trim(home.visualRevisionInput)
     IN IF ~Truthy(home.selectedVisualId) \/ feedback = <<>>
        THEN UNCHANGED <<home, pending, issued, now>>
        ELSE runVisualAgent(
               resetProductState(resetVisualState(
                 [home EXCEPT !.isGeneratingVisuals = TRUE,
                              !.showVisualRevisionInput = FALSE,
                              !.showVisualSatisfactionPrompt = FALSE])),
               home.selectedVisualId, feedback)
  /\ last' = Step("handleVisualRevisionSubmit")
  /\ StayIdle
  /\ UNCHANGED storedIds

\* Cancel of the visuals revision form
CancelVisualRevision ==
  /\ VisualRevisionShown(home)
  /\ home' = [home EXCEPT !.showVisualRevisionInput = FALSE,
                          !.showVisualSatisfactionPrompt = TRUE]
  /\ last' = Step("cancelVisualRevision")
  /\ UNCHANGED <<pending, issued, now>>
  /\ StayIdle
  /\ UNCHANGED storedIds

HandleVisualApprove ==
  /\ VisualSatisfactionShown(home)
  /\ IF ~Truthy(home.selectedVisualId) \/ home.isGeneratingProduct
     THEN UNCHANGED <<home, pending, issued>>
     ELSE /\ issued < budget
          /\ home' = [home EXCEPT !.isGeneratingProduct = TRUE,
                                  !.showVisualSatisfactionPrompt = FALSE,
                                  !.showVisualRevisionInput = FALSE]
          /\ Issue(Request("handleVisualApprove", ProductPrompt(home), home,
                           PRODUCT_AGENT_ID, <<>>, JNull, <<>>))
  /\ last' = Step("handleVisualApprove")
  /\ UNCHANGED now
  /\ StayIdle
  /\ UNCHANGED storedIds

\* ------------------------------------------------------------------------
\* The Home page: what runs when an awaited call settles
\* ------------------------------------------------------------------------
OrElse(text, fallback) == IF text = <<>> THEN fallback ELSE text

\* runVisualAgent after its try/catch, then the finally of its caller
VisualsArrived(h, request, parsed) ==
  LET urls == extractImageUrls(parsed.body)
      options == IF Len(urls) >= 3 THEN visualOptionsFromUrls(urls, now)
                 ELSE request.placeholder
  IN [h EXCEPT !.visualBody = JStr(OrElse(parsed.body, PLACEHOLDER_VISUAL_MESSAGE)),
               !.visualIdentifiers = OrElse(parsed.identifiers, PlaceholderIdentifiers),
               !.visualOptions = options,
               !.showVisualChoicePrompt = TRUE,
               !.showVisualSatisfactionPrompt = FALSE,
               !.showVisualRevisionInput = FALSE,
               !.selectedVisualId = JNull,
               !.isGeneratingVisuals = FALSE]

\* A variant of the handlers' try blocks that leaves the viability approval
\* prompt as it was
OnResolvedLeavingGate(h, request, result) ==
  LET parsed == splitDebugInfo(IF Truthy(result.text) THEN result.text ELSE JStr(<<>>))
      kept == [h EXCEPT !.sessionId = Coalesce(result.sessionId, request.sessionId)]
  IN CASE request.handler = "handleSubmit" ->
            [kept EXCEPT !.idea = request.input,
                         !.input = <<>>,
                         !.researchBody = JStr(OrElse(parsed.body, NoResearchContent)),
                         !.researchIdentifiers = parsed.identifiers,
                         !.isSubmitting = FALSE]
       [] request.handler = "handleResearchRevisionSubmit" ->
            [kept EXCEPT !.idea = request.idea \o <<" (update: ">> \o request.feedback \o <<")">>,
                         !.researchRevisionInput = <<>>,
                         !.researchBody = JStr(OrElse(parsed.body, NoResearchContent)),
                         !.researchIdentifiers = parsed.identifiers,
                         !.isSubmitting = FALSE]
       [] request.handler = "runVisualAgent" ->
            VisualsArrived(kept, request, parsed)
       [] request.handler = "handleVisualApprove" ->
            [kept EXCEPT !.productBody = JStr(OrElse(parsed.body, NoProductContent)),
                         !.productIdentifiers = parsed.identifiers,
                         !.isGeneratingProduct = FALSE]

\* A variant of the handlers' try blocks that shows visuals as soon as the
\* viability report arrives
OnResolvedAutoAdvancing(h, request, result) ==
  LET base == [OnResolvedLeavingGate(h, request, result)
                 EXCEPT !.showResearchApprovalPrompt = TRUE]
  IN IF request.handler = "handleSubmit"
     THEN PlaceholderVisuals(base, createPlaceholderVisuals(now))
     ELSE base

\* The rest of the try block and the finally block of the handler that awaited
OnResolved(h, request, result) ==
  LET parsed == splitDebugInfo(IF Truthy(result.text) THEN result.text ELSE JStr(<<>>))
      kept == [h EXCEPT !.sessionId = Coalesce(result.sessionId, request.sessionId)]
  IN CASE request.handler = "handleSubmit" ->
            [kept EXCEPT !.idea = request.input,
                         !.input = <<>>,
                         !.researchBody = JStr(OrElse(parsed.body, NoResearchContent)),
                         !.researchIdentifiers = parsed.identifiers,
                         !.showResearchApprovalPrompt = TRUE,
                         !.isSubmitting = FALSE]
       [] request.handler = "handleResearchRevisionSubmit" ->
            [kept EXCEPT !.idea = request.idea \o <<" (update: ">> \o request.feedback \o <<")">>,
                         !.researchRevisionInput = <<>>,
                         !.researchBody = JStr(OrElse(parsed.body, NoResearchContent)),
                         !.researchIdentifiers = parsed.identifiers,
                         !.showResearchApprovalPrompt = TRUE,
                         !.isSubmitting = FALSE]
       [] request.handler = "runVisualAgent" ->
            VisualsArrived(kept, request, parsed)
       [] request.handler = "handleVisualApprove" ->
            [kept EXCEPT !.productBody = JStr(OrElse(parsed.body, NoProductContent)),
                         !.productIdentifiers = parsed.identifiers,
                         !.isGeneratingProduct = FALSE]

\* A variant of the handlers' catch blocks that opens the viability approval
\* prompt on the failure text
OnRejectedOpeningGate(h, request, message) ==
  CASE request.handler \in {"handleSubmit", "handleResearchRevisionSubmit"} ->
         [h EXCEPT !.researchBody = JStr(<<"Error: ">> \o message),
                   !.researchIdentifiers = <<>>,
                   !.showResearchApprovalPrompt = TRUE,
                   !.isSubmitting = FALSE]
    [] request.handler = "runVisualAgent" ->
         VisualsArrived(h, request,
                        [body |-> <<"Error calling VisualAgent: ">> \o message,
                         identifiers |-> <<>>])
    [] request.handler = "handleVisualApprove" ->
         [h EXCEPT !.productBody = JStr(<<"Error: ">> \o message),
                   !.productIdentifiers = <<>>,
                   !.isGeneratingProduct = FALSE]

\* A variant of the handlers' catch blocks that forgets the session
OnRejectedDroppingSession(h, request, message) ==
  CASE request.handler \in {"handleSubmit", "handleResearchRevisionSubmit"} ->
         [h EXCEPT !.researchBody = JStr(<<"Error: ">> \o message),
                   !.researchIdentifiers = <<>>,
                   !.sessionId = JNull,
                   !.isSubmitting = FALSE]
    [] request.handler = "runVisualAgent" ->
         VisualsArrived(h, request,
                        [body |-> <<"Error calling VisualAgent: ">> \o message,
                         identifiers |-> <<>>])
    [] request.handler = "handleVisualApprove" ->
         [h EXCEPT !.productBody = JStr(<<"Error: ">> \o message),
                   !.productIdentifiers = <<>>,
                   !.sessionId = JNull,
                   !.isGeneratingProduct = FALSE]

\* A variant of the handlers without their finally blocks on the failure path
OnRejectedKeepingFlags(h, request, message) ==
  CASE request.handler \in {"handleSubmit", "handleResearchRevisionSubmit"} ->
         [h EXCEPT !.researchBody = JStr(<<"Error: ">> \o message),
                   !.researchIdentifiers = <<>>]
    [] request.handler = "runVisualAgent" ->
         VisualsArrived(h, request,
                        [body |-> <<"Error calling VisualAgent: ">> \o message,
                         identifiers |-> <<>>])
    [] request.handler = "handleVisualApprove" ->
         [h EXCEPT !.productBody = JStr(<<"Error: ">> \o message),
                   !.productIdentifiers = <<>>]

\* The catch block and the finally block of the handler that awaited
OnRejected(h, request, message) ==
  CASE request.handler \in {"handleSubmit", "handleResearchRevisionSubmit"} ->
         [h EXCEPT !.researchBody = JStr(<<"Error: ">> \o message),
                   !.researchIdentifiers = <<>>,
                   !.isSubmitting = FALSE]
    [] request.handler = "runVisualAgent" ->
         VisualsArrived(h, request,
                        [body |-> <<"Error calling VisualAgent: ">> \o message,
                         identifiers |-> <<>>])
    [] request.handler = "handleVisualApprove" ->
         [h EXCEPT !.productBody = JStr(<<"Error: ">> \o message),
                   !.productIdentifiers = <<>>,
                   !.isGeneratingProduct = FALSE]

\* sendMessageToAgentOS returns
RequestResolves ==
  /\ \E request \in pending :
       \E text \in ResultTexts, sid \in ResultSessionIds(request.sessionId) :
         LET result == [text |-> JStr(text), sessionId |-> sid]
         IN /\ home' = OnResolved(home, request, result)
            /\ storedIds' = storedIds \cup {id \in {home'.sessionId} : Truthy(id)}
            /\ pending' = pending \ {request}
            /\ last' = [op |-> "resolved", n |-> request.n, handler |-> request.handler,
                        result |-> JObj(result)]
  /\ UNCHANGED <<issued, now>>
  /\ StayIdle

\* sendMessageToAgentOS throws
RequestRejects ==
  /\ \E request \in pending :
       \E message \in ErrorMessages :
         /\ home' = OnRejected(home, request, message)
         /\ pending' = pending \ {request}
         /\ last' = [op |-> "rejected", n |-> request.n, handler |-> request.handler,
                     result |-> JStr(message)]
  /\ UNCHANGED <<issued, now>>
  /\ StayIdle
  /\ UNCHANGED storedIds

\* The run variables while the page is what is being explored
RunIdle ==
  /\ call = NoCall
  /\ response = NoResponse
  /\ stream = <<>>
  /\ argMessage = <<>>
  /\ formData = NoRequest
  /\ argSessionId = JNull
  /\ argTargetMemberId = JUndef
  /\ pos = 0
  /\ sepSplit = FALSE
  /\ buffer = <<>>
  /\ aggregatedText = <<>>
  /\ memberOutputs = <<>>
  /\ memberIdentifiers = <<>>
  /\ observedSessionId = JUndef
  /\ runId = JUndef
  /\ frames = <<>>
  /\ events = <<>>
  /\ noted = <<>>
  /\ pc = "idle"
  /\ thrown = <<>>
  /\ returned = JUndef

Init == InitHomeVars /\ RunIdle

Next ==
  \/ SetInput
  \/ HandleSubmit
  \/ HandleResearchApprove
  \/ HandleResearchReject
  \/ SetResearchRevisionInput
  \/ HandleResearchRevisionSubmit
  \/ CancelResearchRevision
  \/ HandleSelectVisual
  \/ HandleVisualReject
  \/ SetVisualRevisionInput
  \/ HandleVisualRevisionSubmit
  \/ CancelVisualRevision
  \/ HandleVisualApprove
  \/ RequestResolves
  \/ RequestRejects

Spec == Init /\ [][Next]_vars

\* The same page, let to issue one call more
InitLong == InitPage(MaxRequestsLong) /\ RunIdle

SpecLong == InitLong /\ [][Next]_vars

\* The page where every request is answered in the end: a pending promise
\* settles, by resolving or by rejecting
InitFair == InitPage(MaxRequestsFair) /\ RunIdle
SpecFair == InitFair /\ [][Next]_vars /\ WF_vars(RequestResolves \/ RequestRejects)

\* The page, and beside it a caller that passes sendMessageToAgentOS a message
\* of its own: the call runs up to its first await
InitGuard ==
  /\ InitPage(MaxRequestsFair)
  /\ call = NoCall
  /\ response = NoResponse
  /\ stream = <<>>
  /\ argMessage \in Messages
  /\ formData = NoRequest
  /\ argSessionId = JNull
  /\ argTargetMemberId = JUndef
  /\ pos = 0
  /\ sepSplit = FALSE
  /\ buffer = <<>>
  /\ aggregatedText = <<>>
  /\ memberOutputs = <<>>
  /\ memberIdentifiers = <<>>
  /\ observedSessionId = JUndef
  /\ runId = JUndef
  /\ frames = <<>>
  /\ events = <<>>
  /\ noted = <<>>
  /\ pc = "called"
  /\ thrown = <<>>
  /\ returned = JUndef

NextGuard == Next \/ SendRequest

SpecGuard == InitGuard /\ [][NextGuard]_vars

\* ------------------------------------------------------------------------
\* The helpers of agentos.ts, each called once on an argument
\* ------------------------------------------------------------------------
\* Every raw frame of at most MaxFrameLen atoms: event and data lines, a kind,
\* text that is no JSON, two JSON documents, blanks
FrameAlphabet == {NL, SP, "event:", "data:", "K", "x", "null", "{content:A}"}
RawFrames == UNION {[1..n -> FrameAlphabet] : n \in 0..MaxFrameLen}

Returns(fn, arg, result) ==
  /\ call' = [fn |-> fn, arg |-> arg, result |-> result]
  /\ UNCHANGED <<response, stream, pos, sepSplit, argMessage, formData, argSessionId,
                 argTargetMemberId,
                 buffer, aggregatedText, memberOutputs, memberIdentifiers,
                 observedSessionId, runId, frames, events, noted, pc, thrown, returned>>
  /\ UNCHANGED homeVars

CallParseSSEEvent ==
  /\ call = NoCall
  /\ \E rawEvent \in RawFrames :
       Returns("parseSSEEvent", rawEvent, parseSSEEvent(rawEvent))

\* Objects that can refer to each other, as a caller can build them: each has
\* or lacks a text string, and at most one of content (an object or a
\* one-element array), messages and parts (one-element arrays) that refers to
\* an object
Nodes == 1..MaxNodes
NoLink == [field |-> "", shape |-> "", to |-> 0]
Links ==
  {NoLink} \cup
  {[field |-> "content", shape |-> sh, to |-> k] : sh \in {"obj", "arr"}, k \in Nodes} \cup
  {[field |-> f, shape |-> "arr", to |-> k] : f \in {"messages", "parts"}, k \in Nodes}
Heaps == [Nodes -> [text : {JUndef, JStr(<<"A">>)}, link : Links]]

\* The frames the engine allows before RangeError: enough for every structure
\* of the model that does not reach itself
MaxStack == MaxNodes + 1
Threw(name) == [ok |-> FALSE, text |-> <<name>>]
Gave(text) == [ok |-> TRUE, text |-> text]

\* JSON.stringify(record): TypeError on a structure that reaches itself
RECURSIVE StringifyAt(_, _, _)
StringifyAt(heap, k, ancestors) ==
  IF k \in ancestors THEN Threw("TypeError")
  ELSE LET node == heap[k]
           text == IF IsString(node.text) THEN <<"text", ":", node.text.s>> ELSE <<>>
           inner == IF node.link = NoLink THEN Gave(<<>>)
                    ELSE StringifyAt(heap, node.link.to, ancestors \cup {k})
           value == IF node.link.shape = "arr" THEN <<"[">> \o inner.text \o <<"]">>
                    ELSE inner.text
           comma == IF text # <<>> /\ node.link # NoLink THEN <<",">> ELSE <<>>
           link == IF node.link = NoLink THEN <<>> ELSE <<node.link.field, ":">> \o value
       IN IF ~inner.ok THEN inner
          ELSE Gave(<<"{">> \o text \o comma \o link \o <<"}">>)

\* extractTextFromContent on the object k of a heap, depth frames deep
RECURSIVE extractTextAt(_, _, _)
extractTextAt(heap, k, depth) ==
  IF depth > MaxStack THEN Threw("RangeError")
  ELSE
    LET node == heap[k]
        strings == IF IsString(node.text) THEN <<node.text.s>> ELSE <<>>
        isArray == node.link.shape = "arr"
        \* (record.<field> as unknown[]).map(extractTextFromContent).filter(Boolean).join("\n")
        mapped == IF isArray THEN extractTextAt(heap, node.link.to, depth + 1)
                  ELSE Gave(<<>>)
        candidates == strings \o (IF isArray THEN <<mapped.text>> ELSE <<>>)
        preferred == SelectSeq(candidates, LAMBDA c : Trim(c) # <<>>)
    IN IF ~mapped.ok THEN mapped
       ELSE IF preferred # <<>> THEN Gave(preferred[1])
       ELSE IF node.link.field = "content"
            THEN extractTextAt(heap, node.link.to, depth + 1)
            ELSE StringifyAt(heap, k, {})

CallExtractTextOnHeap ==
  /\ call = NoCall
  /\ \E heap \in Heaps, k \in Nodes :
       Returns("extractTextFromContent", [heap |-> heap, root |-> k],
               extractTextAt(heap, k, 1))

\* Parsed documents with a keyed structure on top: each of the fields the
\* function reads is absent (undefined here) or has one of a few values, and
\* id is a field it does not read
FieldValues ==
  [text : {JUndef, JStr(<<>>), JStr(<<"T">>)},
   content : {JUndef, JNull, JStr(<<"C">>), JArr(<<>>), JArr(<<JStr(<<"c">>)>>),
              JObj(<<>>), JObj([text |-> JStr(<<"n">>)])},
   response : {JUndef, JStr(<<"R">>)},
   output : {JUndef, JStr(<<SP>>), JStr(<<"O">>)},
   messages : {JUndef, JArr(<<JNull>>), JArr(<<JStr(<<"m">>)>>)},
   parts : {JUndef, JArr(<<JStr(<<"p">>)>>)},
   id : {JUndef, JNum(1)}]
Present(r) == JObj([k \in {j \in DOMAIN r : r[j] # JUndef} |-> r[k]])
Contents == {Present(r) : r \in FieldValues}

CallExtractText ==
  /\ call = NoCall
  /\ \E content \in Contents :
       Returns("extractTextFromContent", [json |-> content],
               Gave(extractTextFromContent(content)))

\* Member responses nested three levels deep at most: an entry has one of
\* three identifiers, a content that is a text, empty or a coordinator line,
\* and no member_responses, a single nested entry, or a list of one or two
\* items; an item of a list can be a string instead of an entry
MemberIds == {<<"a">>, <<"b">>, <<"c">>}
MemberTexts == {<<"T">>, <<>>, <<"Coordinator">>}
Entry(id, text, nested) ==
  JObj(IF nested = JUndef
       THEN [member_id |-> JStr(id), content |-> JStr(text)]
       ELSE [member_id |-> JStr(id), content |-> JStr(text), member_responses |-> nested])
Entries(nestings) ==
  {Entry(id, text, n) : id \in MemberIds, text \in MemberTexts, n \in nestings}
Leaves == Entries({JUndef})
LeafItems == Leaves \cup {JStr(<<"s">>)}
Middles ==
  Entries(Leaves \cup {JArr(<<x>>) : x \in LeafItems}
                 \cup {JArr(<<x, y>>) : x, y \in LeafItems})
Tops == Entries({JArr(<<m>>) : m \in Middles})
MemberResponses == Leaves \cup {JArr(<<e>>) : e \in Middles \cup Tops}

CallNoteMemberResponses ==
  /\ call = NoCall
  /\ \E responses \in MemberResponses :
       LET rs == noteMemberResponses(FreshLocals(JNull), responses)
       IN Returns("noteMemberResponses", responses,
                  [memberIdentifiers |-> rs.memberIdentifiers,
                   memberOutputs |-> rs.memberOutputs])

\* Entries with a text and any of the four identifier fields: blank, of
\* another type, in capitals, with punctuation, or spelling the placeholder
IdentifiedEntries ==
  {Present(r) : r \in
     [member_id : {JUndef, JStr(<<SP>>), JStr(<<"A">>), JNum(7)},
      agent_id : {JUndef, JStr(<<"a", "-">>)},
      name : {JUndef, JStr(<<"(", "U", "n", "k", "n", "o", "w", "n", ")">>)},
      id : {JUndef, JStr(<<>>), JStr(<<"u", "n", "k", "n", "o", "w", "n">>)},
      content : {JStr(<<"T">>)}]}

CallNoteIdentified ==
  /\ call = NoCall
  /\ \E first \in IdentifiedEntries, second \in IdentifiedEntries :
       LET rs == noteMemberResponses(FreshLocals(JNull), JArr(<<first, second>>))
       IN Returns("noteMemberResponses of two", <<first, second>>,
                  [memberIdentifiers |-> rs.memberIdentifiers,
                   memberOutputs |-> rs.memberOutputs])

\* Final texts, plain, padded, empty, or holding the marker of the trailer
\* themselves, and the identifiers seen by a call
FinalTexts ==
  {<<>>, <<"T">>, <<SP, "T", NL>>, <<"T", NL, NL, "---">>,
   <<"T">> \o Trailer \o <<SP, "x">>, Trailer \o <<"T">>}
IdentifierLists == {<<>>, <<<<"m">>>>, <<<<"m">>, <<"v">>>>, <<<<"m">>, <<"v">>, <<"m">>>>}

\* splitDebugInfo on the text sendMessageToAgentOS returns
CallSplitDebugInfo ==
  /\ call = NoCall
  /\ \E finalText \in FinalTexts, identifiers \in IdentifierLists :
       Returns("splitDebugInfo", [finalText |-> finalText, identifiers |-> identifiers],
               splitDebugInfo(JStr(Envelope(finalText,
                                            Join(Distinct(identifiers), <<",", SP>>)))))

NextCall ==
  \/ CallParseSSEEvent
  \/ CallExtractTextOnHeap
  \/ CallExtractText
  \/ CallNoteMemberResponses
  \/ CallNoteIdentified
  \/ CallSplitDebugInfo

SpecCall == Init /\ [][NextCall]_vars

\* ------------------------------------------------------------------------
\* Properties of one sendMessageToAgentOS call (SpecRun)
\* ------------------------------------------------------------------------

\* The locals after the text s has arrived as a single chunk
SingleChunk(s) ==
  processBuffer([FreshLocals(argSessionId) EXCEPT !.buffer = <<>> \o s])

\* C1: however the text is cut into chunks, the raw frames sliced off so far are
\* the frames a single chunk holding the delivered text yields, and once the call
\* has ended they are the frames the whole text yields as a single chunk
C1_ChunkingYieldsSameFrames ==
  /\ frames = SingleChunk(SubSeq(stream, 1, pos)).frames
  /\ pc \in {"returned", "threw"} => frames = SingleChunk(stream).frames

\* C1 witness: a call that has returned two frames or more, one of its chunks
\* having ended between the two newlines of a separator
C1_Witness ==
  /\ pc = "returned"
  /\ Len(frames) >= 2
  /\ sepSplit

\* C5: a dispatched TeamRunError event is the last one dispatched; the call has
\* thrown, the message is the payload's string content field or else
\* "Team run failed.", and nothing is returned
C5_RunErrorFailsTheCall ==
  /\ \A i \in 1..Len(events) :
       events[i].type = <<"TeamRunError">> =>
         LET data == events[i].data
             hasStringContent == /\ data.t = "obj"
                                 /\ "content" \in DOMAIN data.f
                                 /\ data.f["content"].t = "str"
         IN /\ i = Len(events)
            /\ pc = "threw"
            /\ thrown = IF hasStringContent THEN data.f["content"].s
                        ELSE <<"Team run failed.">>
            /\ returned = JUndef
  /\ pc = "threw" =>
       /\ events # <<>>
       /\ events[Len(events)].type = <<"TeamRunError">>

\* C5 witness: the call threw the content string of the error event although
\* free text had been accumulated from an earlier frame
C5_Witness ==
  /\ pc = "threw"
  /\ thrown = <<"A">>
  /\ aggregatedText # <<>>
  /\ Len(events) = 2

\* The outputs noted for the members other than the target, grouped by member
\* in the order the members first appeared
NotedTexts(sel(_)) ==
  LET hits == SelectSeq(noted, LAMBDA e : sel(e.id))
  IN [i \in 1..Len(hits) |-> hits[i].text]
OtherIdsNoted(targetId) ==
  Distinct(LET hits == SelectSeq(noted, LAMBDA e : e.id # targetId)
           IN [i \in 1..Len(hits) |-> hits[i].id])
OthersGrouped(targetId) ==
  LET ids == OtherIdsNoted(targetId)
  IN Flatten([i \in 1..Len(ids) |-> NotedTexts(LAMBDA id : id = ids[i])])

\* C6: the text returned is, before the trailer, the target's outputs joined by
\* a blank line when it has any; else the outputs of the other members joined
\* by a blank line when there are any; else the sanitized free text
C6_ThreeTierFinalText ==
  pc = "returned" =>
    LET targetId == TargetId(argTargetMemberId)
        ofTarget == NotedTexts(LAMBDA id : id = targetId)
        ofOthers == OthersGrouped(targetId)
        expected == IF ofTarget # <<>> THEN Join(ofTarget, <<NL, NL>>)
                    ELSE IF ofOthers # <<>> THEN Join(ofOthers, <<NL, NL>>)
                    ELSE sanitizeCoordinatorText(aggregatedText)
    IN SubSeq(returned.text, 1, Len(Trim(expected)) + Len(Trailer))
         = Trim(expected) \o Trailer

\* C6 witness: the call returned the output of another member although free
\* text had been accumulated and the target had no output
C6_Witness ==
  /\ pc = "returned"
  /\ LET targetId == TargetId(argTargetMemberId)
     IN /\ NotedTexts(LAMBDA id : id = targetId) = <<>>
        /\ OthersGrouped(targetId) # <<>>
        /\ sanitizeCoordinatorText(aggregatedText) # <<>>

\* The two events of the terminal overwrite scenario
ContentA == [type |-> <<"TeamRunContent">>, data |-> JObj([content |-> JStr(<<"A">>)])]
CompletedB == [type |-> <<"TeamRunCompleted">>, data |-> JObj([content |-> JStr(<<"B">>)])]
OverwriteScenario ==
  /\ Len(events) = 2
  /\ [type |-> events[1].type, data |-> events[1].data] = ContentA
  /\ [type |-> events[2].type, data |-> events[2].data] = CompletedB

\* C7: after a terminal event with a non-blank string content the accumulated
\* free text is that content alone, and a call that consumed content "A" and
\* then terminal content "B" returns the text "B"
C7_TerminalContentReplaces ==
  /\ \A i \in 1..Len(events) :
       LET data == events[i].data
       IN (/\ events[i].type = <<"TeamRunCompleted">>
           /\ data.t = "obj"
           /\ "content" \in DOMAIN data.f
           /\ data.f["content"].t = "str"
           /\ Trim(data.f["content"].s) # <<>>)
          => events[i].aggregatedText = data.f["content"].s
  /\ (pc = "returned" /\ OverwriteScenario) =>
       returned.text = <<"B">> \o Trailer \o <<SP>>

\* C7 witness: a call that consumed content "A", then terminal content "B", and
\* returned
C7_Witness ==
  /\ pc = "returned"
  /\ OverwriteScenario
  /\ events[1].aggregatedText = <<NL, "A">>

\* ------------------------------------------------------------------------
\* Properties of the Home page (Spec)
\* ------------------------------------------------------------------------

\* The stages the documentation names, in order
STAGES == <<"intake", "viability", "visuals", "spec", "sourcing", "final">>
Rank(stage) == CHOOSE i \in 1..Len(STAGES) : STAGES[i] = stage

\* The stage the page is at: the stage whose prompt or revision form is open,
\* else the furthest stage that has output or a call in flight
Stage(h) ==
  IF h.showVisualSatisfactionPrompt \/ h.showVisualRevisionInput THEN "visuals"
  ELSE IF h.showResearchApprovalPrompt \/ h.showResearchRevisionInput THEN "viability"
  ELSE IF hasProduct(h) \/ h.isGeneratingProduct THEN "spec"
  ELSE IF hasVisuals(h) \/ h.isGeneratingVisuals THEN "visuals"
  ELSE IF hasResearch(h) \/ h.isSubmitting THEN "viability"
  ELSE "intake"

\* The calls a step issues
Issued == pending' \ pending
ResearchHandlers == {"handleSubmit", "handleResearchRevisionSubmit"}

\* C2: at most one sendMessageToAgentOS call is awaited at any time
C2_AtMostOneInFlight == Cardinality(pending) <= 1

\* C3: in the state a failed idea submission leaves, the idea form is rendered,
\* and in the state a failed viability revision leaves, the revision form is
C3_RetryControlAvailable ==
  last.op = "rejected" =>
    /\ last.handler = "handleSubmit" => IdeaFormShown(home)
    /\ last.handler = "handleResearchRevisionSubmit" => ResearchRevisionShown(home)

\* C4: the step in which a call fails stores the failure text as the output of
\* the stage the call was issued for, leaves that stage without an open approval
\* prompt it did not have, and issues no call
C4_FailureRecordsTextOnly ==
  [][(last'.op = "rejected" /\ last' # last) =>
       LET message == last'.result.s
       IN /\ Issued = {}
          /\ issued' = issued
          /\ last'.handler \in ResearchHandlers =>
               /\ home'.researchBody = JStr(<<"Error: ">> \o message)
               /\ ~home'.showResearchApprovalPrompt
          /\ last'.handler = "runVisualAgent" =>
               /\ home'.visualBody = JStr(<<"Error calling VisualAgent: ">> \o message)
               /\ ~home'.showVisualSatisfactionPrompt
          /\ last'.handler = "handleVisualApprove" =>
               /\ home'.productBody = JStr(<<"Error: ">> \o message)
               /\ home'.showVisualSatisfactionPrompt = home.showVisualSatisfactionPrompt
               /\ home'.showResearchApprovalPrompt = home.showResearchApprovalPrompt
     ]_vars

\* C4 witness: a viability revision has failed, with the generic message
C4_Witness ==
  /\ last.op = "rejected"
  /\ last.handler = "handleResearchRevisionSubmit"
  /\ home.researchBody = JStr(<<"Error: ">> \o GenericRunError)
  /\ ~home.showResearchApprovalPrompt
  /\ pending = {}

\* The steps of the idea submission: the one that issues its call, and what the
\* issuing and the returning steps do apart from the text they store
SubmitIssues ==
  (\E request \in Issued : request.handler = "handleSubmit") =>
    /\ ~hasResearch(home)
    /\ ~home.isSubmitting
    /\ \A request \in pending : request.handler \notin ResearchHandlers
    /\ Trim(home.input) # <<>>
SubmitIssuesOne ==
  (last'.op = "handleSubmit" /\ Trim(home.input) # <<>> /\ ~home.isSubmitting) =>
    /\ issued' = issued + 1
    /\ Cardinality(Issued) = 1
    /\ \A request \in Issued :
         /\ request.handler = "handleSubmit"
         /\ request.targetMemberId = RESEARCH_AGENT_ID
SubmitReturned == last'.op = "resolved" /\ last'.handler = "handleSubmit" /\ last' # last
ReturnedBody == splitDebugInfo(last'.result.f.text).body

C9_ApproveIssuesVisualsRequest ==
  [][(last'.op = "handleResearchApprove" /\ ~home.isGeneratingVisuals) =>
       /\ ~home'.showResearchApprovalPrompt
       /\ ~home'.showResearchRevisionInput
       /\ \E request \in Issued :
            /\ request.targetMemberId = VISUAL_AGENT_ID
            /\ request.sessionId = home.sessionId
    ]_vars

\* C10: rejecting at an approval prompt closes it and opens the revision form of
\* the same stage, issues no call, and leaves that stage's output, the idea and
\* the session id as they were
C10_RejectOpensRevisionOnly ==
  [][/\ last'.op = "handleResearchReject" =>
          /\ home.showResearchApprovalPrompt
          /\ ~home'.showResearchApprovalPrompt
          /\ home'.showResearchRevisionInput
          /\ home'.researchBody = home.researchBody
          /\ home'.researchIdentifiers = home.researchIdentifiers
          /\ home'.idea = home.idea
          /\ home'.sessionId = home.sessionId
          /\ pending' = pending
          /\ issued' = issued
          /\ Stage(home') = Stage(home)
     /\ last'.op = "handleVisualReject" =>
          /\ home.showVisualSatisfactionPrompt
          /\ ~home'.showVisualSatisfactionPrompt
          /\ home'.showVisualRevisionInput
          /\ home'.visualBody = home.visualBody
          /\ home'.visualOptions = home.visualOptions
          /\ home'.selectedVisualId = home.selectedVisualId
          /\ home'.researchBody = home.researchBody
          /\ home'.idea = home.idea
          /\ home'.sessionId = home.sessionId
          /\ pending' = pending
          /\ issued' = issued
          /\ Stage(home') = Stage(home)
    ]_vars

\* C10 witness: the visuals have been rejected after a session id was stored,
\* and the revision form is open on the visuals still shown
C10_Witness ==
  /\ last.op = "handleVisualReject"
  /\ home.showVisualRevisionInput
  /\ ~home.showVisualSatisfactionPrompt
  /\ hasVisuals(home)
  /\ Truthy(home.selectedVisualId)
  /\ home.sessionId = JStr(<<"s1">>)

\* The calls that settle in a step
Settled == pending \ pending'

\* C11: submitting non-blank text in the viability revision form issues one
\* call targeted at the research agent whose prompt contains the trimmed text;
\* when that call returns, the idea is the idea the form was submitted on with
\* " (update: <text>)" appended, the approval prompt is open and the revision
\* form is closed
C11_RevisionReissuesAndAppends ==
  [][/\ (/\ last'.op = "handleResearchRevisionSubmit"
          /\ Trim(home.researchRevisionInput) # <<>>
          /\ ~home.isSubmitting) =>
          /\ home.showResearchRevisionInput
          /\ Cardinality(Issued) = 1
          /\ \A request \in Issued :
               /\ request.targetMemberId = RESEARCH_AGENT_ID
               /\ IndexOf(request.message, Trim(home.researchRevisionInput)) > 0
               /\ request.idea = home.idea
     /\ (last'.op = "resolved" /\ last'.handler = "handleResearchRevisionSubmit") =>
          \A request \in Settled :
            /\ home'.idea = home.idea \o <<" (update: ">> \o request.feedback \o <<")">>
            /\ IndexOf(request.message, request.feedback) > 0
            /\ home'.showResearchApprovalPrompt
            /\ ~home'.showResearchRevisionInput
            /\ hasResearch(home')
    ]_vars

\* C11 witness: two revisions have succeeded and the idea carries the text of
\* each, the later one last
C11_Witness ==
  /\ last.op = "resolved"
  /\ last.handler = "handleResearchRevisionSubmit"
  /\ home.idea = <<"i", " (update: ", "f", ")", " (update: ", "f", ")">>
  /\ home.showResearchApprovalPrompt
  /\ ~home.showResearchRevisionInput

\* C12: while the satisfaction prompt or the visuals revision form is open, one
\* of the visual options shown is the selected one; and every call to the
\* product agent was issued on a selected option, which its prompt names
C12_VisualGateNeedsSelection ==
  /\ (home.showVisualSatisfactionPrompt \/ home.showVisualRevisionInput) =>
        /\ Truthy(home.selectedVisualId)
        /\ Truthy(selectedVisual(home))
  /\ \A request \in pending :
        request.targetMemberId = PRODUCT_AGENT_ID =>
          /\ IndexOf(request.message, <<"Selected visual nickname: ">>) > 0
          /\ IndexOf(request.message,
                     <<"Selected visual details could not be determined from the UI state.">>) = 0

\* C12 witness: the visuals revision form is open on a selected option while a
\* call to the product agent is pending
C12_Witness ==
  /\ home.showVisualRevisionInput
  /\ Truthy(selectedVisual(home))
  /\ \E request \in pending : request.targetMemberId = PRODUCT_AGENT_ID

\* C13: selecting another option while the visuals revision form is open (the
\* selected option was rejected) issues a call targeted at the visual agent
\* whose prompt contains the feedback typed for the rejected option
C13_ReselectRestartsVisuals ==
  [][(/\ last'.op = "handleSelectVisual"
      /\ home.showVisualRevisionInput
      /\ home'.selectedVisualId # home.selectedVisualId) =>
       \E request \in Issued :
         /\ request.targetMemberId = VISUAL_AGENT_ID
         /\ IndexOf(request.message, Trim(home.visualRevisionInput)) > 0
    ]_vars

\* A step that puts new visual options on the page
VisualsProduced == home'.visualOptions # <<>> /\ home'.visualOptions # home.visualOptions

\* C14: new visual options appear only in a step that approves at the open
\* viability approval prompt, or that revises visuals which such an approval
\* produced; a call to the visual agent is issued only in those steps; a call
\* to the product agent is issued only by approving at the open satisfaction
\* prompt with one of the visuals shown selected; and product output appears
\* only when such a call settles
C14_NoAdvanceWithoutApproval ==
  [][/\ VisualsProduced =>
          \/ /\ last'.op = "handleResearchApprove"
             /\ home.showResearchApprovalPrompt
             /\ hasResearch(home)
          \/ /\ last'.op = "handleVisualRevisionSubmit"
             /\ hasVisuals(home)
             /\ Truthy(selectedVisual(home))
          \/ /\ last'.op \in {"resolved", "rejected"}
             /\ last'.handler = "runVisualAgent"
     /\ \A request \in Issued :
          /\ request.targetMemberId = VISUAL_AGENT_ID =>
               \/ last'.op = "handleResearchApprove" /\ home.showResearchApprovalPrompt
               \/ last'.op = "handleVisualRevisionSubmit" /\ hasVisuals(home)
          /\ request.targetMemberId = PRODUCT_AGENT_ID =>
               /\ last'.op = "handleVisualApprove"
               /\ home.showVisualSatisfactionPrompt
               /\ hasVisuals(home)
               /\ Truthy(selectedVisual(home))
     /\ (Truthy(home'.productBody) /\ home'.productBody # home.productBody) =>
          /\ last'.op \in {"resolved", "rejected"}
          /\ last'.handler = "handleVisualApprove"
    ]_vars

\* C14 witness: the visuals were approved at the satisfaction prompt and the
\* call to the product agent is pending
C14_Witness ==
  /\ last.op = "handleVisualApprove"
  /\ home.isGeneratingProduct
  /\ hasVisuals(home)
  /\ Truthy(selectedVisual(home))
  /\ \E request \in pending : request.targetMemberId = PRODUCT_AGENT_ID

\* C15: the stage changes only to the next stage of the documented order, and
\* only in a step that submits the idea or approves at a prompt
C15_StageAdvancesOneStepPerApproval ==
  [][Stage(home') # Stage(home) =>
       /\ Rank(Stage(home')) = Rank(Stage(home)) + 1
       /\ last'.op \in {"handleSubmit", "handleResearchApprove", "handleVisualApprove"}
    ]_vars

\* The role each handler addresses
TargetOf(handler) ==
  CASE handler \in ResearchHandlers -> RESEARCH_AGENT_ID
    [] handler = "runVisualAgent" -> VISUAL_AGENT_ID
    [] handler = "handleVisualApprove" -> PRODUCT_AGENT_ID

\* C16: every call issued names the research, visual or product agent as its
\* target and is given the session id the page holds when the handler starts;
\* and once a session id has been stored, every call issued afterwards posts a
\* session_id that was stored
C16_RequestsCarrySessionAndRole ==
  [][\A request \in Issued :
       /\ request.targetMemberId = TargetOf(request.handler)
       /\ request.sessionId = home.sessionId
       /\ storedIds # {} => Posted(request).session_id \in storedIds
    ]_vars

\* C17: once the page holds a non-empty session id, no step changes it
C17_SessionIdFirstWins ==
  [][Truthy(home.sessionId) => home'.sessionId = home.sessionId]_vars

\* The gate flags of each stage that are open
ResearchGateFlags(h) ==
  {flag \in {"showResearchApprovalPrompt", "showResearchRevisionInput"} : h[flag]}
VisualGateFlags(h) ==
  {flag \in {"showVisualSatisfactionPrompt", "showVisualRevisionInput"} : h[flag]}

\* C18: at most one gate flag is open: never both the approval prompt and the
\* revision form of one stage, and never a flag of the viability gate together
\* with a flag of the visuals gate
C18_AtMostOneGateFlag ==
  Cardinality(ResearchGateFlags(home) \cup VisualGateFlags(home)) <= 1

\* C18 witness: the visuals revision form is the one gate flag open, after the
\* viability gate was passed
C18_Witness ==
  /\ VisualGateFlags(home) = {"showVisualRevisionInput"}
  /\ ResearchGateFlags(home) = {}
  /\ hasResearch(home)
  /\ last.op = "handleVisualReject"

\* C19: when a call settles while a call issued after it is still pending, the
\* page's state is left as it was
C19_StaleCompletionChangesNothing ==
  [][(/\ last'.op \in {"resolved", "rejected"}
      /\ \E newer \in pending : newer.n > last'.n) =>
       home' = home
    ]_vars

\* C20: when the call returns, an event left in the buffer without its
\* separator (one that names its type) has been decoded and dispatched: it is
\* the last event consumed
C20_TrailingEventIsConsumed ==
  pc = "returned" =>
    LET tail == parseSSEEvent(buffer)
    IN (tail.isEvent /\ \E i \in 1..Len(buffer) : buffer[i] = "event:") =>
         /\ events # <<>>
         /\ events[Len(events)].type = tail.type
         /\ events[Len(events)].data = tail.data

\* C21: a response that is not ok or has no body makes the call throw at once:
\* the message carries the status and the body text that could be read, nothing
\* has been read from the stream, no frame sliced, no event dispatched, nothing
\* returned; and only such a response is refused
C21_BadResponseFailsAtOnce ==
  /\ (~response.ok \/ ~response.body) => pc \in {"fetched", "refused"}
  /\ pc = "refused" =>
       /\ ~response.ok \/ ~response.body
       /\ thrown = <<"AgentOS request failed with status ", ToString(response.status), ". ">>
                   \o (IF response.body /\ ~response.textFails THEN stream ELSE <<>>)
       /\ pos = 0
       /\ buffer = <<>>
       /\ frames = <<>>
       /\ events = <<>>
       /\ aggregatedText = <<>>
       /\ returned = JUndef

\* C21 witness: a status 500 response whose body is a whole event frame has
\* been refused with that text in the message
C21_Witness ==
  /\ pc = "refused"
  /\ response.status = 500
  /\ stream = CoreFrames[1] \o Separator
  /\ thrown = <<"AgentOS request failed with status ", "500", ". ">> \o stream

\* ------------------------------------------------------------------------
\* Properties of the helpers (SpecCall)
\* ------------------------------------------------------------------------
\* The lines of a frame that start with "data:", each without the prefix and
\* trimmed, in order; and the same for "event:"
RECURSIVE ValuesOf(_, _)
ValuesOf(lines, prefix) ==
  IF lines = <<>> THEN <<>>
  ELSE LET line == Head(lines)
           here == IF Len(line) >= 1 /\ line[1] = prefix
                   THEN <<Trim(Tail(line))>> ELSE <<>>
       IN here \o ValuesOf(Tail(lines), prefix)

\* The data values of a frame joined by newlines
RECURSIVE JoinedData(_)
JoinedData(values) ==
  IF values = <<>> THEN <<>>
  ELSE IF Len(values) = 1 THEN values[1]
  ELSE values[1] \o <<NL>> \o JoinedData(Tail(values))

Parsed == call.fn = "parseSSEEvent" /\ call.result.isEvent
DataValues == ValuesOf(Split(call.arg, NL), "data:")
EventValues == ValuesOf(Split(call.arg, NL), "event:")

\* C22 as stated: the payload of a decoded event is null only if the frame has
\* no data line, and with a data line it is the parsed document or the raw
\* joined text
C22_NullPayloadOnlyWithoutData ==
  Parsed =>
    /\ call.result.data = JNull => DataValues = <<>>
    /\ DataValues # <<>> =>
         call.result.data = IF JsonParse(JoinedData(DataValues)).ok
                            THEN JsonParse(JoinedData(DataValues)).value
                            ELSE JStr(JoinedData(DataValues))

\* C22 amended: the payload of a decoded event is null only if the joined data
\* lines are empty (no data line, or only empty ones) or are the JSON document
\* null; when they are not empty it is the parsed document, or the raw joined
\* text if JSON.parse rejects it
C22_NullPayloadOnlyWithoutDataText ==
  Parsed =>
    LET joined == JoinedData(DataValues)
    IN /\ call.result.data = JNull =>
            joined = <<>> \/ (JsonParse(joined).ok /\ JsonParse(joined).value = JNull)
       /\ joined = <<>> => call.result.data = JNull
       /\ joined # <<>> =>
            call.result.data = IF JsonParse(joined).ok THEN JsonParse(joined).value
                               ELSE JStr(joined)

\* C22 witness: a frame with two data lines that are no JSON together has been
\* decoded to their raw joined text
C22_Witness ==
  /\ Parsed
  /\ Len(DataValues) = 2
  /\ call.result.data = JStr(<<"x", NL>>)

\* The lines of a frame that start with "event:" or "data:", joined again
PrefixedOnly(rawEvent) ==
  Join(SelectSeq(Split(rawEvent, NL),
                 LAMBDA l : Len(l) >= 1 /\ l[1] \in {"event:", "data:"}), <<NL>>)

\* C23: parseSSEEvent returns null exactly for a frame that is empty or only
\* whitespace; otherwise the kind is the value of the last "event:" line, or
\* "message" without one, and the lines that start with neither "event:" nor
\* "data:" do not change the result
C23_KindIsLastEventLine ==
  call.fn = "parseSSEEvent" =>
    /\ ~call.result.isEvent <=> (\A i \in 1..Len(call.arg) : call.arg[i] \in {NL, SP})
    /\ call.result.isEvent =>
         /\ call.result.type = IF EventValues = <<>> THEN <<"message">>
                                ELSE EventValues[Len(EventValues)]
         /\ parseSSEEvent(PrefixedOnly(call.arg)).isEvent =>
              parseSSEEvent(PrefixedOnly(call.arg)) = call.result

\* C23 witness: a frame with two "event:" lines has been decoded and carries
\* the kind of the second
C23_Witness ==
  /\ Parsed
  /\ Len(EventValues) = 2
  /\ EventValues[1] # EventValues[2]
  /\ call.result.type = <<"K">>

\* ------------------------------------------------------------------------
\* Frames whose data is not JSON (SpecRun)
\* ------------------------------------------------------------------------
DataOf(frame) == JoinedData(ValuesOf(Split(frame, NL), "data:"))
KindsOf(frame) == ValuesOf(Split(frame, NL), "event:")
IsRaw(frame) == DataOf(frame) # <<>> /\ ~JsonParse(DataOf(frame)).ok
IsErrorFrame(frame) ==
  KindsOf(frame) # <<>> /\ KindsOf(frame)[Len(KindsOf(frame))] = <<"TeamRunError">>

\* The frames sliced off so far that decode to an event, in order
EventFrames == SelectSeq(frames, LAMBDA f : \E i \in 1..Len(f) : f[i] \notin {NL, SP})

\* The text of the frames sliced off so far without the frames whose data is
\* not JSON and whose kind is not TeamRunError
WithoutRaw ==
  Flatten([i \in 1..Len(frames) |->
             IF IsRaw(frames[i]) /\ ~IsErrorFrame(frames[i]) THEN <<>>
             ELSE frames[i] \o Separator])

\* The payload of a frame whose data is not JSON is the raw joined text, and the
\* locals are what the other frames alone leave, in their order
RawFramesAreSkipped ==
  /\ Len(events) = Len(EventFrames)
  /\ \A k \in 1..Len(events) :
       IsRaw(EventFrames[k]) => events[k].data = JStr(DataOf(EventFrames[k]))
  /\ LET rs == SingleChunk(WithoutRaw)
     IN /\ aggregatedText = rs.aggregatedText
        /\ memberOutputs = rs.memberOutputs
        /\ memberIdentifiers = rs.memberIdentifiers
        /\ observedSessionId = rs.observedSessionId
        /\ runId = rs.runId
        /\ (pc = "threw") = rs.thrown

\* C24 as stated: a frame whose data is not JSON gets the raw joined text for
\* payload, the call never fails at such a frame, and the later frames are
\* decoded and consumed in order
C24_RawDataNeverFails ==
  /\ RawFramesAreSkipped
  /\ pc = "threw" => ~IsRaw(frames[Len(frames)])

\* C24 amended: a frame whose data is not JSON gets the raw joined text for
\* payload; the call fails at such a frame only if its kind is TeamRunError,
\* and after such a frame of another kind the later frames are decoded and
\* consumed in order
C24_RawDataFailsOnlyAsError ==
  /\ RawFramesAreSkipped
  /\ pc = "threw" /\ IsRaw(frames[Len(frames)]) => IsErrorFrame(frames[Len(frames)])

\* C24 witness: the call returned the text of a frame that followed a frame
\* whose data is not JSON
C24_Witness ==
  /\ pc = "returned"
  /\ Len(frames) = 2
  /\ IsRaw(frames[1])
  /\ events[1].data = JStr(<<"x">>)
  /\ aggregatedText = <<"B">>

\* C25: after every return of processBuffer that is no throw, the retained
\* buffer holds no blank-line separator, and the frames sliced off so far, each
\* followed by the separator, then the retained buffer, are exactly the text
\* received so far
C25_FramesAndBufferAreTheText ==
  pc \in {"reading", "returned"} =>
    /\ \A i \in 1..(Len(buffer) - 1) : ~(buffer[i] = NL /\ buffer[i + 1] = NL)
    /\ Flatten([i \in 1..Len(frames) |-> frames[i] \o <<NL, NL>>]) \o buffer
         = SubSeq(stream, 1, pos)

\* C25 witness: a frame has been sliced off and the start of the next one is
\* retained
C25_Witness ==
  /\ pc = "reading"
  /\ Len(frames) = 1
  /\ frames[1] # <<>>
  /\ buffer # <<>>

\* The objects a call of extractTextFromContent on a heap can visit: the root
\* and what a visited object's content, messages or parts refers to
RECURSIVE ReachFrom(_, _, _)
ReachFrom(heap, set, n) ==
  IF n = 0 THEN set
  ELSE ReachFrom(heap, set \cup {heap[k].link.to : k \in {j \in set : heap[j].link # NoLink}},
                 n - 1)
ReachesItself(heap, k) ==
  \E j \in ReachFrom(heap, {k}, MaxNodes) :
     heap[j].link # NoLink /\ j \in ReachFrom(heap, {heap[j].link.to}, MaxNodes)

ExtractReturnsOnTrees ==
  /\ call.fn = "extractTextFromContent"
  /\ "heap" \in DOMAIN call.arg => ~ReachesItself(call.arg.heap, call.arg.root)
  => call.result.ok

\* A call of extractTextFromContent on a parsed document
OnDocument == call.fn = "extractTextFromContent" /\ "json" \in DOMAIN call.arg
StringKeys == <<"text", "content", "response", "output">>
SequenceKeys == <<"content", "messages", "parts">>
\* The string fields of a document, in the order of the keys
StringsOf(doc) ==
  LET keys == SelectSeq(StringKeys, LAMBDA k : IsString(Field(doc, k)))
  IN [i \in 1..Len(keys) |-> Field(doc, keys[i]).s]
\* The normalized sequences of a document, in the order of the keys
SequencesOf(doc) ==
  LET keys == SelectSeq(SequenceKeys, LAMBDA k : Field(doc, k).t = "arr")
  IN [i \in 1..Len(keys) |-> extractTextFromContent(Field(doc, keys[i]))]
NestedContent(doc) == Field(doc, "content").t \in {"obj", "arr"}

\* C27: where no text, content, response or output string, no content,
\* messages or parts sequence and no nested content structure of a keyed
\* structure yields a non-empty text, extractTextFromContent returns the
\* serialization of the whole structure, which is not empty
C27_NothingMatchedYieldsSerialization ==
  OnDocument =>
    LET doc == call.arg.json
    IN (/\ \A i \in 1..Len(StringsOf(doc)) : StringsOf(doc)[i] = <<>>
        /\ \A i \in 1..Len(SequencesOf(doc)) : SequencesOf(doc)[i] = <<>>
        /\ NestedContent(doc) => extractTextFromContent(Field(doc, "content")) = <<>>)
       => /\ call.result.text = Stringify(doc)
          /\ call.result.text # <<>>


\* C28 as stated: for a keyed structure the result is the first non-empty
\* string among text, content, response and output; without one, the first
\* non-empty normalized sequence among content, messages and parts; without one,
\* the normalization of the nested content structure
C28_FirstNonEmptyCandidate ==
  OnDocument =>
    LET doc == call.arg.json
        strings == SelectSeq(StringsOf(doc), LAMBDA c : c # <<>>)
        sequences == SelectSeq(SequencesOf(doc), LAMBDA c : c # <<>>)
    IN IF strings # <<>> THEN call.result.text = strings[1]
       ELSE IF sequences # <<>> THEN call.result.text = sequences[1]
       ELSE NestedContent(doc) =>
              call.result.text = extractTextFromContent(Field(doc, "content"))

\* C28 amended: the same with "not empty once trimmed of whitespace" for
\* "non-empty": a string or sequence candidate that is only whitespace is
\* passed over
C28_FirstNonBlankCandidate ==
  OnDocument =>
    LET doc == call.arg.json
        blank(c) == \A i \in 1..Len(c) : c[i] \in {SP, NL}
        strings == SelectSeq(StringsOf(doc), LAMBDA c : ~blank(c))
        sequences == SelectSeq(SequencesOf(doc), LAMBDA c : ~blank(c))
    IN IF strings # <<>> THEN call.result.text = strings[1]
       ELSE IF sequences # <<>> THEN call.result.text = sequences[1]
       ELSE NestedContent(doc) =>
              call.result.text = extractTextFromContent(Field(doc, "content"))

\* C28 witness: a structure with an empty text string, a string of whitespace
\* for output and both a content and a messages sequence has yielded the text
\* of the content sequence
C28_Witness ==
  /\ OnDocument
  /\ Field(call.arg.json, "text") = JStr(<<>>)
  /\ Field(call.arg.json, "output") = JStr(<<SP>>)
  /\ Field(call.arg.json, "messages") = JArr(<<JStr(<<"m">>)>>)
  /\ call.result.text = <<"c">>

\* ------------------------------------------------------------------------
\* noteMemberResponses (SpecCall)
\* ------------------------------------------------------------------------
\* The items of a member_responses value: those of the list, or the value
ItemsOf(responses) == IF responses.t = "arr" THEN responses.items ELSE <<responses>>
NestedOf(item) ==
  IF item.t = "obj" /\ "member_responses" \in DOMAIN item.f
  THEN ItemsOf(item.f["member_responses"]) ELSE <<>>
\* The entry has a text that sanitization keeps
Speaks(item) == item.t = "obj" /\ item.f["content"] = JStr(<<"T">>)

\* The entries of a member_responses value, parents before their nested
\* entries and earlier items before later ones
RECURSIVE Walk(_)
Walk(items) ==
  IF items = <<>> THEN <<>>
  ELSE (IF Head(items).t = "obj" THEN <<Head(items)>> ELSE <<>>)
       \o Walk(NestedOf(Head(items))) \o Walk(Tail(items))

\* The number of levels of a member_responses value
RECURSIVE Levels(_)
Levels(items) ==
  IF items = <<>> THEN 0
  ELSE Max({1 + Levels(NestedOf(Head(items))), Levels(Tail(items))})

Noting == call.fn = "noteMemberResponses"
Walked == Walk(ItemsOf(call.arg))
IdsOf(entries) == [i \in 1..Len(entries) |-> entries[i].f["member_id"].s]

\* C29: where every entry of a nested member-responses structure has its own
\* identifier and a non-empty text, noteMemberResponses records one output for
\* each entry, parents before their nested entries and earlier items before
\* later ones; three nested levels of one entry each give exactly three outputs
C29_OneOutputPerLevelInOrder ==
  /\ Noting
  /\ \A i \in 1..Len(Walked) : Speaks(Walked[i])
  /\ \A i, j \in 1..Len(Walked) : i # j => IdsOf(Walked)[i] # IdsOf(Walked)[j]
  => /\ call.result.memberIdentifiers = IdsOf(Walked)
     /\ call.result.memberOutputs =
          [i \in 1..Len(Walked) |-> [key |-> IdsOf(Walked)[i], value |-> <<<<"T">>>>]]
     /\ Levels(ItemsOf(call.arg)) = 3 /\ Len(Walked) = 3
          => Len(call.result.memberOutputs) = 3

\* C29 witness: three levels of one entry each have been noted
C29_Witness ==
  /\ Noting
  /\ Levels(ItemsOf(call.arg)) = 3
  /\ Len(Walked) = 3
  /\ Len(call.result.memberOutputs) = 3
  /\ call.result.memberIdentifiers = <<<<"c">>, <<"a">>, <<"b">>>>

\* C30: an entry whose cleaned text is empty records no output itself, but its
\* nested member_responses are resolved all the same; an item that is no
\* structure is passed over and the items after it are resolved
C30_EmptyTextStillResolvesNested ==
  Noting =>
    call.result.memberIdentifiers = IdsOf(SelectSeq(Walked, Speaks))

\* An item that is no structure is passed over and the items after it are
\* resolved, where no entry above them has an empty cleaned text
NonStructuresArePassedOver ==
  /\ Noting
  /\ \A i \in 1..Len(Walked) : NestedOf(Walked[i]) # <<>> => Speaks(Walked[i])
  => call.result.memberIdentifiers = IdsOf(SelectSeq(Walked, Speaks))

\* ------------------------------------------------------------------------
\* Member identifiers (SpecCall)
\* ------------------------------------------------------------------------
\* The first of member_id, agent_id, name and id that is a string with more
\* than whitespace in it, or the placeholder
FirstIdentifier(entry) ==
  LET named(k) == /\ k \in DOMAIN entry.f
                  /\ entry.f[k].t = "str"
                  /\ \E i \in 1..Len(entry.f[k].s) : entry.f[k].s[i] \notin {SP, NL}
  IN IF named("member_id") THEN entry.f["member_id"].s
     ELSE IF named("agent_id") THEN entry.f["agent_id"].s
     ELSE IF named("name") THEN entry.f["name"].s
     ELSE IF named("id") THEN entry.f["id"].s
     ELSE <<"(", "u", "n", "k", "n", "o", "w", "n", ")">>
\* Lowercased, and without what is no lowercase letter or digit
LettersAndDigits(id) ==
  SelectSeq(ToLowerCase(id), LAMBDA c : c \in LowerSet \cup Digits)
NotedTwo == call.fn = "noteMemberResponses of two"
\* The two entries were noted as one member
SameMember == Len(call.result.memberOutputs) = 1

\* C31 as stated: the identifier of an entry is the first non-blank string
\* among member_id, agent_id, name and id, or "(unknown)"; two entries are the
\* same member exactly when their identifiers are equal once lowercased and
\* stripped of what is no lowercase letter or digit
C31_IdentifierIsFirstNonBlankField ==
  NotedTwo =>
    /\ call.result.memberIdentifiers =
         <<FirstIdentifier(call.arg[1]), FirstIdentifier(call.arg[2])>>
    /\ SameMember <=> LettersAndDigits(FirstIdentifier(call.arg[1]))
                       = LettersAndDigits(FirstIdentifier(call.arg[2]))

\* C31 amended: the identifier is that string lowercased, or "(unknown)"; two
\* entries are the same member exactly when their identifiers are equal once
\* stripped of what is no lowercase letter or digit, an identifier that reads
\* "(unknown)" being left as it is
C31_IdentifierIsLowercasedFirstField ==
  NotedTwo =>
    LET one == ToLowerCase(FirstIdentifier(call.arg[1]))
        two == ToLowerCase(FirstIdentifier(call.arg[2]))
        key(id) == IF id = <<"(", "u", "n", "k", "n", "o", "w", "n", ")">> THEN id
                   ELSE LettersAndDigits(id)
    IN /\ call.result.memberIdentifiers = <<one, two>>
       /\ SameMember <=> key(one) = key(two)

\* C31 witness: an entry named "A" by member_id and one named "a-" by agent_id
\* were noted as one member
C31_Witness ==
  /\ NotedTwo
  /\ call.result.memberIdentifiers = <<<<"a">>, <<"a", "-">>>>
  /\ SameMember

\* ------------------------------------------------------------------------
\* The ids of a call (SpecRun)
\* ------------------------------------------------------------------------
\* The non-empty strings the payloads of the dispatched events carry under a
\* key, in order
IdsCarried(key) ==
  LET carrying == SelectSeq(events, LAMBDA e :
                    /\ e.data.t = "obj"
                    /\ key \in DOMAIN e.data.f
                    /\ e.data.f[key].t = "str"
                    /\ e.data.f[key].s # <<>>)
  IN [i \in 1..Len(carrying) |-> carrying[i].data.f[key]]
\* The id a call holds: the one supplied if any, else the first one carried,
\* else none
FirstWins(supplied, carried, held) ==
  IF supplied.t = "str" /\ supplied.s # <<>> THEN held = supplied
  ELSE IF carried # <<>> THEN held = carried[1]
  ELSE held \in {JUndef, JStr(<<>>)}

\* C32: the session id of a call is the one supplied with the request if that
\* is non-empty, else the session_id of the first payload that carries a
\* non-empty one, whatever the kind of its event, and later payloads do not
\* change it; the run id is the run_id of the first payload that carries a
\* non-empty one; a call that returns reports these
C32_IdsFirstWins ==
  /\ pc \in {"reading", "returned", "threw"} =>
       /\ FirstWins(argSessionId, IdsCarried("session_id"), observedSessionId)
       /\ FirstWins(JUndef, IdsCarried("run_id"), runId)
  /\ pc = "returned" =>
       /\ FirstWins(argSessionId, IdsCarried("session_id"), returned.sessionId)
       /\ FirstWins(JUndef, IdsCarried("run_id"), returned.runId)

\* C32 witness: a call without a session id returned the ids of the first of
\* two payloads, the second carrying others
C32_Witness ==
  /\ pc = "returned"
  /\ argSessionId = JNull
  /\ IdsCarried("session_id") = <<JStr(<<"s2">>), JStr(<<"s1">>)>>
  /\ returned.sessionId = JStr(<<"s2">>)
  /\ returned.runId = JStr(<<"r2">>)

\* ------------------------------------------------------------------------
\* Accumulation (SpecRun)
\* ------------------------------------------------------------------------
\* The accumulated text before the k-th dispatched event
TextBefore(k) == IF k = 1 THEN <<>> ELSE events[k - 1].aggregatedText

\* The member entries the dispatched TeamRunContent and TeamRunCompleted events
\* carry, nested ones after their parents, in arrival order
EntriesObserved ==
  Flatten([k \in 1..Len(events) |->
     IF /\ events[k].type \in {<<"TeamRunContent">>, <<"TeamRunCompleted">>}
        /\ events[k].data.t = "obj"
        /\ "member_responses" \in DOMAIN events[k].data.f
     THEN Walk(ItemsOf(events[k].data.f["member_responses"]))
     ELSE <<>>])
CleanedText(entry) == sanitizeCoordinatorText(Trim(extractMemberText(entry)))
MemberKey(entry) ==
  IF extractMemberIdentifier(entry) = <<>> THEN Unknown
  ELSE IF extractMemberIdentifier(entry) = Unknown THEN Unknown
  ELSE normalizeIdentifier(extractMemberIdentifier(entry))
\* The member outputs observed: the entries with a text, in arrival order
OutputsObserved == SelectSeq(EntriesObserved, LAMBDA e : CleanedText(e) # <<>>)
TextsObservedOf(key) ==
  LET own == SelectSeq(OutputsObserved, LAMBDA e : MemberKey(e) = key)
  IN [i \in 1..Len(own) |-> CleanedText(own[i])]

\* Each TeamRunContent event with a content field has appended a newline and
\* its normalized content to the accumulated text
ContentIsAppended ==
  \A k \in 1..Len(events) :
     (/\ events[k].type = <<"TeamRunContent">>
      /\ events[k].data.t = "obj"
      /\ "content" \in DOMAIN events[k].data.f)
     => events[k].aggregatedText
          = TextBefore(k) \o <<NL>> \o extractTextFromContent(events[k].data.f["content"])

\* Each member's list holds the texts of its observed outputs in arrival order
OutputsAreAppended ==
  /\ \A i \in 1..Len(memberOutputs) :
       memberOutputs[i].value = TextsObservedOf(memberOutputs[i].key)
  /\ \A i \in 1..Len(OutputsObserved) :
       \E j \in 1..Len(memberOutputs) : memberOutputs[j].key = MemberKey(OutputsObserved[i])

\* C33: incremental events accumulate: each TeamRunContent event with a content
\* field appends a newline and its normalized content to the accumulated text,
\* and every member output observed in a TeamRunContent or TeamRunCompleted
\* event is at the end of the list of its normalized id when it is noted, so
\* each list holds all the member's outputs in arrival order
C33_IncrementalEventsAccumulate ==
  pc \in {"reading", "returned", "threw"} => ContentIsAppended /\ OutputsAreAppended

\* The same where no entry without text has nested entries
AccumulateWhereParentsSpeak ==
  /\ pc \in {"reading", "returned", "threw"}
  /\ \A i \in 1..Len(EntriesObserved) :
       NestedOf(EntriesObserved[i]) # <<>> => CleanedText(EntriesObserved[i]) # <<>>
  => ContentIsAppended /\ OutputsAreAppended

\* ------------------------------------------------------------------------
\* Failures on the Home page (Spec)
\* ------------------------------------------------------------------------
\* C34: when a viability revision request fails, the revision gate that was
\* open before the submission is open after the failure and the approval gate
\* is closed
C34_FailedRevisionKeepsGate ==
  [][(/\ last'.op = "rejected"
      /\ last' # last
      /\ last'.handler = "handleResearchRevisionSubmit")
     => /\ home'.showResearchRevisionInput
        /\ ~home'.showResearchApprovalPrompt
    ]_vars

\* C35: whenever a spec output is stored, a viability output is stored and a
\* visual option is selected
C35_SpecOutputHasItsInputs ==
  home.productBody # JNull =>
    /\ home.researchBody # JNull
    /\ home.selectedVisualId # JNull

\* ------------------------------------------------------------------------
\* In-flight flags (SpecFair)
\* ------------------------------------------------------------------------
PendingOf(handlers) == {request \in pending : request.handler \in handlers}

\* C36: where every request settles in the end, each in-flight flag that is set
\* is cleared again (at every moment it is clear then or later), after a
\* failure as after a success, and no flag is set while no request of its kind
\* is pending
C36_FlagsAreCleared ==
  /\ [](/\ home.isSubmitting => PendingOf(ResearchHandlers) # {}
        /\ home.isGeneratingVisuals => PendingOf({"runVisualAgent"}) # {}
        /\ home.isGeneratingProduct => PendingOf({"handleVisualApprove"}) # {})
  /\ []<>(~home.isSubmitting)
  /\ []<>(~home.isGeneratingVisuals)
  /\ []<>(~home.isGeneratingProduct)

\* C36 witness: the spec request failed and its flag is clear
C36_Witness ==
  /\ last.op = "rejected"
  /\ last.handler = "handleVisualApprove"
  /\ ~home.isGeneratingProduct
  /\ pending = {}

\* C37: a request that fails leaves the stored session id and the stored idea
\* as they were: neither the handler's steps before the request nor its catch
\* block change them, whatever the response stream delivered before it failed
C37_FailureKeepsSessionAndIdea ==
  [][(Issued # {} \/ (last'.op = "rejected" /\ last' # last))
     => /\ home'.sessionId = home.sessionId
        /\ home'.idea = home.idea
    ]_vars

\* C37 witness: a viability revision failed on a page that has a session id
\* and an idea
C37_Witness ==
  /\ last.op = "rejected"
  /\ last.handler = "handleResearchRevisionSubmit"
  /\ Truthy(home.sessionId)
  /\ home.idea # <<>>

\* ------------------------------------------------------------------------
\* The result envelope (SpecCall)
\* ------------------------------------------------------------------------
\* The text without the whitespace at its ends
RECURSIVE Stripped(_)
Stripped(text) ==
  IF text = <<>> THEN text
  ELSE IF Head(text) \in {SP, NL} THEN Stripped(Tail(text))
  ELSE IF text[Len(text)] \in {SP, NL} THEN Stripped(SubSeq(text, 1, Len(text) - 1))
  ELSE text
\* The distinct identifiers in order of first appearance, joined by ", "
RECURSIVE Listed(_, _)
Listed(identifiers, seen) ==
  IF identifiers = <<>> THEN <<>>
  ELSE IF Head(identifiers) \in seen THEN Listed(Tail(identifiers), seen)
  ELSE (IF seen = {} THEN <<>> ELSE <<",", SP>>) \o Head(identifiers)
       \o Listed(Tail(identifiers), seen \cup {Head(identifiers)})

\* C38: splitDebugInfo applied to the text sendMessageToAgentOS returns gives
\* back the trimmed final text for body and the joined identifiers, also when
\* the final text holds the marker of the trailer
C38_EnvelopeRoundTrip ==
  call.fn = "splitDebugInfo" =>
    /\ call.result.body = Stripped(call.arg.finalText)
    /\ call.result.identifiers = Listed(call.arg.identifiers, {})

\* The same for the final texts that do not hold the marker
RoundTripWithoutMarker ==
  call.fn = "splitDebugInfo" /\ IndexOf(call.arg.finalText, Trailer) = 0
    => /\ call.result.body = Stripped(call.arg.finalText)
       /\ call.result.identifiers = Listed(call.arg.identifiers, {})

\* ------------------------------------------------------------------------
\* The terminal snapshot (SpecRun)
\* ------------------------------------------------------------------------
HasContent(e) == e.data.t = "obj" /\ "content" \in DOMAIN e.data.f
ContentText(e) == extractTextFromContent(e.data.f["content"])
\* A TeamRunCompleted event whose content is not blank
IsSnapshot(e) ==
  e.type = <<"TeamRunCompleted">> /\ HasContent(e) /\ Stripped(ContentText(e)) # <<>>
\* The position of the last of them among the dispatched events, 0 without one
LastSnapshot ==
  LET at == {k \in 1..Len(events) : IsSnapshot(events[k])}
  IN IF at = {} THEN 0 ELSE CHOOSE k \in at : \A j \in at : j <= k
\* What the TeamRunContent events from the k-th on append
RECURSIVE ContentFrom(_)
ContentFrom(k) ==
  IF k > Len(events) THEN <<>>
  ELSE (IF events[k].type = <<"TeamRunContent">> /\ HasContent(events[k])
        THEN <<NL>> \o ContentText(events[k]) ELSE <<>>) \o ContentFrom(k + 1)
SnapshotAndLater ==
  (IF LastSnapshot = 0 THEN <<>> ELSE ContentText(events[LastSnapshot]))
    \o ContentFrom(LastSnapshot + 1)
OutputsBefore(k) == IF k = 1 THEN <<>> ELSE events[k - 1].memberOutputs
TextKinds == {<<"TeamRunContent">>, <<"TeamRunCompleted">>, <<"TeamRunError">>}

\* C39: when the request returns, the accumulated text is the content of the
\* last TeamRunCompleted event with a content that is not blank (nothing
\* without one) followed by what the TeamRunContent events after it append,
\* and an event of any kind other than TeamRunContent, TeamRunCompleted and
\* TeamRunError leaves the accumulated text and the member outputs as they were
C39_TextIsSnapshotAndLaterContent ==
  /\ pc = "returned" => aggregatedText = SnapshotAndLater
  /\ \A k \in 1..Len(events) :
       events[k].type \notin TextKinds
         => /\ events[k].aggregatedText = TextBefore(k)
            /\ events[k].memberOutputs = OutputsBefore(k)

\* A terminal event with content and a member output, an event of another kind
\* that carries both, and an incremental event: the text is B, newline, A
C39_Witness ==
  /\ pc = "returned"
  /\ Len(events) = 3
  /\ IsSnapshot(events[1])
  /\ events[1].memberOutputs # <<>>
  /\ events[2].type = <<"RunStarted">>
  /\ HasContent(events[2])
  /\ "member_responses" \in DOMAIN events[2].data.f
  /\ events[3].type = <<"TeamRunContent">>
  /\ aggregatedText = <<"B", NL, "A">>

\* ------------------------------------------------------------------------
\* Blank messages (SpecGuard)
\* ------------------------------------------------------------------------
\* The in-flight flags and the gates of the page
FlagsOf(h) == <<h.isSubmitting, h.isGeneratingVisuals, h.isGeneratingProduct>>
GatesOf(h) ==
  <<h.showResearchApprovalPrompt, h.showResearchRevisionInput, h.showVisualChoicePrompt,
    h.showVisualSatisfactionPrompt, h.showVisualRevisionInput>>
\* The step is a submission of a blank idea or of a blank revision text
BlankSubmission ==
  \/ last'.op = "handleSubmit" /\ Stripped(home.input) = <<>>
  \/ last'.op = "handleResearchRevisionSubmit"
       /\ Stripped(home.researchRevisionInput) = <<>>
  \/ last'.op = "handleVisualRevisionSubmit" /\ Stripped(home.visualRevisionInput) = <<>>

\* C40: a call of sendMessageToAgentOS with an empty or blank message has
\* failed with "Message cannot be empty." once it has run, and fetch has not
\* been called; and a submission of a blank idea or of a blank revision text
\* starts no request and leaves the in-flight flags and the gates as they were
C40_BlankMessagesGoNowhere ==
  /\ [](pc # "called" /\ Stripped(argMessage) = <<>>
          => /\ pc = "invalid"
             /\ thrown = <<"Message cannot be empty.">>
             /\ formData = JUndef)
  /\ [][BlankSubmission
         => /\ pending' = pending
            /\ issued' = issued
            /\ FlagsOf(home') = FlagsOf(home)
            /\ GatesOf(home') = GatesOf(home)]_vars

\* The caller has passed a message of blanks and the call has failed, and on
\* the page a blank idea has been submitted
C40_Witness ==
  /\ argMessage = <<SP, NL>>
  /\ pc = "invalid"
  /\ thrown = <<"Message cannot be empty.">>
  /\ last.op = "handleSubmit"
  /\ home.input = <<SP>>
  /\ pending = {}

====
